---- MODULE Spec2Model ----
(***************************************************************************)
(* Reconciliation of Tailscale peers against Cloudflare DNS A records:     *)
(* src/src/sync.py (the pass and the purge), src/src/cloudflare.py (the    *)
(* DNS client) and the device list of src/src/tailscale.py.                *)
(*                                                                         *)
(* Text is a sequence of one-character strings, so that lower-casing and   *)
(* suffix tests are computed and not assumed.  An address is an opaque     *)
(* string: the pass only compares addresses for equality.                  *)
(***************************************************************************)
EXTENDS Integers, Sequences, FiniteSets, TLC

\* ------------------------------------------------------------------ bounds
\* Most devices the agent reports in one scenario.
MaxPeers == 2
\* Most records the zone holds before the first run.
MaxZone == 2
\* A run starts only while the provider has handed out fewer ids than this.
MaxId == 4
\* Most writes by another client of the zone (SpecEnv only).
MaxOther == 1
\* Most records the provider puts on one page of a listing.
PageCap == 1
\* Most remote peers in the status the agent prints (the agent specification).
MaxStatusPeers == 2
\* Most characters of a short name, prefix or domain (the naming specification).
MaxLabel == 2
\* Most pages the provider has an answer for (the listing specification).
MaxPages == 3

\* ------------------------------------------------------- program constants
\* Cloudflare error code "record not found".
RecordNotFound == 81044
\* Cloudflare error code "record already exists".
RecordExists == 81057
\* HTTP statuses the client singles out in get_dns_records.
Unauthorized == 401
Forbidden == 403
\* per_page of every list request.
PerPage == 100
\* An error code the client gives no meaning to (tests: 9999, 9000).
OtherError == 9999

\* -------------------------------------------------------------------- text
\* str.lower() on one character of the alphabet used here.
LowerChar(c) ==
    CASE c = "A" -> "a"
      [] c = "B" -> "b"
      [] c = "T" -> "t"
      [] c = "S" -> "s"
      [] c = "X" -> "x"
      [] c = "Σ" -> "σ"
      [] OTHER -> c

\* The characters of the alphabet that str.lower() skips when it looks for
\* the neighbours of a capital sigma (case-ignorable), and those that have
\* a case (cased); a digit or a hyphen is neither.
CaseIgnorable(c) == c = "."

Cased(c) == c \notin {".", "-", "0", "1", "2", "3", "4", "5", "6", "7", "8", "9"}

\* str.lower(), the one mapping that depends on the neighbours: a capital
\* sigma at position i becomes a final sigma when the nearest character
\* before it that is not case-ignorable is cased and the nearest one after
\* it, if any, is not.
FinalSigma(s, i) ==
    /\ \E j \in 1..(i - 1) :
          /\ Cased(s[j])
          /\ \A k \in (j + 1)..(i - 1) : CaseIgnorable(s[k])
    /\ ~ \E j \in (i + 1)..Len(s) :
          /\ Cased(s[j])
          /\ \A k \in (i + 1)..(j - 1) : CaseIgnorable(s[k])

\* str.lower()
Lower(s) ==
    [i \in DOMAIN s |->
        IF s[i] = "Σ" /\ FinalSigma(s, i) THEN "ς" ELSE LowerChar(s[i])]

\* str.endswith(suffix)
EndsWith(s, suffix) ==
    /\ Len(s) >= Len(suffix)
    /\ SubSeq(s, Len(s) - Len(suffix) + 1, Len(s)) = suffix

Dot == <<".">>

\* ----------------------------------------------------------------- scenario
\* CloudflareAPI.__init__: the (subdomain_prefix, domain) of the client.
Configs ==
    { [subdomain_prefix |-> <<"T", "s">>, domain |-> <<"x">>] }

\* The device dictionaries get_devices returns (name, real_hostname, ip).
DeviceKinds ==
    { [name |-> <<"a">>, real_hostname |-> <<"a">>, ip |-> "ip1"],
      [name |-> <<"A">>, real_hostname |-> <<"A">>, ip |-> "ip2"],
      [name |-> <<"b">>, real_hostname |-> <<>>,    ip |-> "ip1"],
      [name |-> <<>>,    real_hostname |-> <<>>,    ip |-> "ip2"] }

\* The records a zone may hold before the first run (without their ids).
RecordKinds ==
    { [name |-> <<"a", ".", "t", "s", ".", "x">>, content |-> "ip1", type |-> "A"],
      [name |-> <<"a", ".", "t", "s", ".", "x">>, content |-> "ip2", type |-> "A"],
      [name |-> <<"B", ".", "T", "s", ".", "x">>, content |-> "ip2", type |-> "A"],
      [name |-> <<"b", ".", "t", "s", ".", "x">>, content |-> "ip1", type |-> "TXT"],
      [name |-> <<"t", "s", ".", "x">>,           content |-> "ip2", type |-> "A"] }

\* Sequences without repetition over S, of length at most n.
RECURSIVE SeqsUpTo(_, _)
SeqsUpTo(S, n) ==
    IF n = 0 THEN { <<>> }
    ELSE LET shorter == SeqsUpTo(S, n - 1)
         IN  shorter \cup
             { Append(q, x) : q \in { r \in shorter : Len(r) = n - 1 },
                              x \in S }

NoRepeat(q) == \A i, j \in DOMAIN q : i # j => q[i] # q[j]

VARIABLES
    cf,          \* the CloudflareAPI object: subdomain_prefix, domain
    peers,       \* what the local agent reports: the list get_devices returns
    zone,        \* the provider's records, in listing order
    nextId,      \* the provider's next record id
    pc,          \* position of the driver inside the current run
    cmd,         \* "sync" (synchronize_dns) or "cleanup" (cleanup_cloudflare_records)
    dry_run,     \* the dry_run argument of the current run
    desired,     \* desired_records_map, in insertion order
    current,     \* current_records_map (or managed_records of a purge), in order
    idx,         \* position of the loop that is running
    actions,     \* the five counters of the pass
    calls,       \* remote calls of the current run, in order
    zone0,       \* the zone when the current run started
    prev,        \* what is remembered of the last finished run
    otherWrites, \* writes made by another client of the zone
    others,      \* what those writes were during the run, in order
    managed_records, \* managed_records of cleanup_cloudflare_records
    config_file, \* the file load_config reads
    environ,     \* os.environ as load_config reads it
    config,      \* what load_config returned or raised
    agent,       \* what `tailscale status --json` does when it is run
    active_devices, \* what get_devices returned or raised
    listing,     \* one get_dns_records call: the provider's pages, the pages asked
    last         \* the log of the last finished pass, where one is kept

\* What the process reads at its boundary and makes of it, apart from a run.
boundary == << config_file, environ, config, agent, active_devices, listing >>

\* The state of the runs.
running ==
    << cf, peers, zone, nextId, pc, cmd, dry_run, desired, current, idx,
       actions, calls, zone0, prev, otherWrites, others, managed_records >>

vars == << running, boundary, last >>

\* ---------------------------------------------------------------- provider
\* One HTTP exchange as the client sees it.  status 0: no response at all
\* (requests.exceptions.RequestException other than HTTPError).
Resp(status, success, codes) ==
    [status |-> status, success |-> success, codes |-> codes]

OkResp == Resp(200, TRUE, {})

\* Answers by which the provider refuses a call, whatever the call.
Refusals ==
    { Resp(500, FALSE, {}), Resp(200, FALSE, {OtherError}), Resp(0, FALSE, {}) }

Ids(z) == { z[i].id : i \in DOMAIN z }

\* The record of the zone with the given id (the id is in the zone).
RecordById(z, id) == z[CHOOSE i \in DOMAIN z : z[i].id = id]

\* DELETE /zones/<zone>/dns_records/<id>: the answers the provider can give
\* and the zone each leaves.  An unknown id is "record not found", sent either
\* as an HTTP error status or inside a 200 body.
ProviderDelete(z, id) ==
    IF id \in Ids(z)
    THEN { [resp |-> OkResp, zone |-> SelectSeq(z, LAMBDA r : r.id # id)] }
         \cup { [resp |-> f, zone |-> z] : f \in Refusals }
    ELSE { [resp |-> Resp(404, FALSE, {RecordNotFound}), zone |-> z],
           [resp |-> Resp(200, FALSE, {RecordNotFound}), zone |-> z] }
         \cup { [resp |-> f, zone |-> z] : f \in Refusals }

\* PUT /zones/<zone>/dns_records/<id>: full replace of name, content and type,
\* refused for an unknown id and when it would leave two identical records.
ProviderUpdate(z, id, name, content) ==
    IF /\ id \in Ids(z)
       /\ \A i \in DOMAIN z :
             ~ (/\ z[i].id # id
                /\ z[i].type = "A"
                /\ Lower(z[i].name) = Lower(name)
                /\ z[i].content = content)
    THEN { [resp |-> OkResp,
            zone |-> [i \in DOMAIN z |->
                        IF z[i].id = id
                        THEN [id |-> id, name |-> name, content |-> content,
                              type |-> "A"]
                        ELSE z[i]]] }
         \cup { [resp |-> f, zone |-> z] : f \in Refusals }
    ELSE { [resp |-> f, zone |-> z] : f \in Refusals }

\* POST /zones/<zone>/dns_records: an identical record (same type, name and
\* content) is the conflict "record already exists"; otherwise the record is
\* added under a fresh id, or the call is refused.
ProviderCreate(z, nid, name, content) ==
    IF \E i \in DOMAIN z :
          /\ z[i].type = "A"
          /\ Lower(z[i].name) = Lower(name)
          /\ z[i].content = content
    THEN { [resp |-> Resp(400, FALSE, {RecordExists}), zone |-> z] }
         \cup { [resp |-> f, zone |-> z] : f \in Refusals }
    ELSE { [resp |-> OkResp,
            zone |-> Append(z, [id |-> nid, name |-> name, content |-> content,
                                type |-> "A"])] }
         \cup { [resp |-> f, zone |-> z] : f \in Refusals }

\* GET /zones/<zone>/dns_records?type=..&name=..: the statuses of a listing.
\* A listing never changes the zone.
ProviderList ==
    { OkResp, Resp(Unauthorized, FALSE, {}), Resp(Forbidden, FALSE, {}),
      Resp(500, FALSE, {}), Resp(0, FALSE, {}) }

\* The records a listing matches, in the provider's order: the type filter,
\* and the name filter when a name is given (name = << >>: none).
Matching(z, name, type) ==
    SelectSeq(z, LAMBDA r : /\ r.type = type
                            /\ (name = <<>> \/ Lower(r.name) = name))

Min(a, b) == IF a <= b THEN a ELSE b

\* One page of a listing: {result: [...], result_info: {total_pages}}.
PageOf(matching, page, per_page) ==
    LET size == Min(per_page, PageCap)
        n == Len(matching)
    IN  [result |-> SubSeq(matching, (page - 1) * size + 1, Min(page * size, n)),
         total_pages |-> (n + size - 1) \div size]

\* ------------------------------------------------------------------ client
\* CloudflareAPI._request: the exception it raises for an exchange, or "none".
Request(resp) ==
    IF resp.status = 0 THEN "RequestException"
    ELSE IF resp.status >= 400 THEN "HTTPError"
    ELSE "none"

\* GetRecordName without the final lower().
GetRecordName_NoLower(c, device_name) ==
    IF device_name = <<>>
    THEN [exc |-> "ValueError", name |-> <<>>]
    ELSE [exc |-> "none",
          name |-> device_name \o Dot \o c.subdomain_prefix \o Dot \o c.domain]

\* CloudflareAPI._get_record_name
GetRecordName(c, device_name) ==
    IF device_name = <<>>
    THEN [exc |-> "ValueError", name |-> <<>>]
    ELSE [exc |-> "none",
          name |-> Lower(device_name \o Dot \o c.subdomain_prefix \o Dot \o c.domain)]

\* FetchPages of a loop that stops after the page it starts on.
FetchPages_FirstPageOnly(matching, page, all_records) ==
    all_records \o PageOf(matching, page, PerPage).result

\* The while loop of get_dns_records, from `page` on, `all_records` so far.
RECURSIVE FetchPages(_, _, _)
FetchPages(matching, page, all_records) ==
    LET data == PageOf(matching, page, PerPage)
    IN  IF data.result = <<>> THEN all_records
        ELSE IF page >= data.total_pages THEN all_records \o data.result
        ELSE FetchPages(matching, page + 1, all_records \o data.result)

\* The page at which the while loop of get_dns_records stops when every
\* request is answered: the number of requests it makes.
RECURSIVE PagesAsked(_, _)
PagesAsked(matching, page) ==
    LET data == PageOf(matching, page, PerPage)
    IN  IF data.result = <<>> THEN page
        ELSE IF page >= data.total_pages THEN page
        ELSE PagesAsked(matching, page + 1)

\* The ways the provider can answer one listing of zone z: every page, or
\* the pages before page `at` and then the failure resp (at = 0: no failure).
ListAnswers(z, name, type) ==
    { [resp |-> OkResp, at |-> 0] } \cup
    { [resp |-> r, at |-> p] :
        r \in ProviderList \ {OkResp},
        p \in 1..PagesAsked(Matching(z, name, type), 1) }

\* GetDnsRecords without the test for 401 and 403: every HTTP error status
\* propagates as it is.
GetDnsRecords_NoAuthError(z, name, record_type, ans) ==
    LET e == Request(ans.resp)
    IN  IF e # "none" THEN [exc |-> e, records |-> <<>>, pages |-> ans.at]
        ELSE [exc |-> "none",
              records |-> FetchPages(Matching(z, name, record_type), 1, <<>>),
              pages |-> PagesAsked(Matching(z, name, record_type), 1)]

\* CloudflareAPI.get_dns_records(name, record_type) against zone z, the
\* provider answering as ans says: the exception raised, the list returned,
\* and the number of page requests made.
GetDnsRecords(z, name, record_type, ans) ==
    LET e == Request(ans.resp)
    IN  IF e = "HTTPError" /\ ans.resp.status \in {Unauthorized, Forbidden}
        THEN [exc |-> "ValueError", records |-> <<>>, pages |-> ans.at]
        ELSE IF e # "none" THEN [exc |-> e, records |-> <<>>, pages |-> ans.at]
        ELSE [exc |-> "none",
              records |-> FetchPages(Matching(z, name, record_type), 1, <<>>),
              pages |-> PagesAsked(Matching(z, name, record_type), 1)]

\* IsManagedName with the suffix left in the letter case of the configuration.
IsManagedName_SuffixNotLowered(c, name) ==
    EndsWith(Lower(name), Dot \o c.subdomain_prefix \o Dot \o c.domain)

\* IsManagedName with the record's name compared as it is spelt.
IsManagedName_CaseSensitive(c, name) ==
    EndsWith(name, Lower(Dot \o c.subdomain_prefix \o Dot \o c.domain))

\* IsManagedName with a suffix that lacks its leading dot.
IsManagedName_NoDot(c, name) ==
    EndsWith(Lower(name), Lower(c.subdomain_prefix \o Dot \o c.domain))

\* The suffix test of get_all_managed_records.
IsManagedName(c, name) ==
    EndsWith(Lower(name), Lower(Dot \o c.subdomain_prefix \o Dot \o c.domain))

\* CloudflareAPI.get_all_managed_records
GetAllManagedRecords(c, z, ans) ==
    LET got == GetDnsRecords(z, <<>>, "A", ans)
    IN  IF got.exc # "none" THEN got
        ELSE [exc |-> "none",
              pages |-> got.pages,
              records |-> SelectSeq(got.records,
                                    LAMBDA r : IsManagedName(c, r.name))]

\* CloudflareAPI.delete_dns_record: what it does with the provider's answer.
DeleteDnsRecord(resp) ==
    LET e == Request(resp)
    IN  IF e # "none" THEN [exc |-> e, ret |-> FALSE]
        ELSE IF resp.success THEN [exc |-> "none", ret |-> TRUE]
        ELSE IF RecordNotFound \in resp.codes THEN [exc |-> "none", ret |-> TRUE]
        ELSE [exc |-> "none", ret |-> FALSE]

\* UpdateDnsRecord that returns whenever the request raised nothing, without
\* reading the success flag of the body.
UpdateDnsRecord_TrustsStatus(resp) ==
    LET e == Request(resp)
    IN  IF e # "none" THEN e ELSE "none"

\* CloudflareAPI.update_dns_record: what it does with the provider's answer.
UpdateDnsRecord(resp) ==
    LET e == Request(resp)
    IN  IF e # "none" THEN e
        ELSE IF resp.success THEN "none"
        ELSE "Exception"

\* CreateDnsRecord whose except clause re-fetches and then re-raises even
\* when the record was found.
CreateDnsRecord_ReRaises(resp, existing) ==
    LET e == Request(resp)
    IN  IF e = "none" THEN (IF resp.success THEN "none" ELSE "Exception")
        ELSE IF e = "HTTPError" /\ RecordExists \in resp.codes
        THEN (IF existing.exc \in {"none", "ValueError"} THEN "HTTPError"
              ELSE existing.exc)
        ELSE e

\* CreateDnsRecord without the except clause: every HTTP error is raised.
CreateDnsRecord_NoAbsorb(resp, existing) ==
    LET e == Request(resp)
    IN  IF e = "none" THEN (IF resp.success THEN "none" ELSE "Exception")
        ELSE e

\* CloudflareAPI.create_dns_record, when it returns: result["result"] of the
\* successful answer (created), or existing[0] on the conflict path.
CreateResult(resp, created, existing) ==
    IF Request(resp) = "none" THEN created ELSE existing.records[1]

\* CloudflareAPI.create_dns_record: what it does with the provider's answer;
\* existing is get_dns_records(name=record_name) as the conflict path sees it.
CreateDnsRecord(resp, existing) ==
    LET e == Request(resp)
    IN  IF e = "none" THEN (IF resp.success THEN "none" ELSE "Exception")
        ELSE IF e = "HTTPError" /\ RecordExists \in resp.codes
        THEN (IF existing.exc = "none" /\ existing.records # <<>> THEN "none"
              ELSE IF existing.exc \in {"none", "ValueError"} THEN "HTTPError"
              ELSE existing.exc)
        ELSE e

\* ---------------------------------------------------------------- the maps
\* A Python dict as the sequence of its entries in insertion order; every
\* entry carries its key in the field fqdn.
Keys(m) == { m[i].fqdn : i \in DOMAIN m }

\* dict[key]  (the key is present)
Get(m, key) == m[CHOOSE i \in DOMAIN m : m[i].fqdn = key]

\* Put with the entry already under the key kept.
Put_KeepsFirst(m, entry) ==
    IF entry.fqdn \in Keys(m) THEN m ELSE Append(m, entry)

\* dict[key] = entry: an existing key keeps its place, a new one goes last.
Put(m, entry) ==
    IF entry.fqdn \in Keys(m)
    THEN [i \in DOMAIN m |-> IF m[i].fqdn = entry.fqdn THEN entry ELSE m[i]]
    ELSE Append(m, entry)

\* get_desired_dns_records: the loop over ts_devices[k..], into map m.
RECURSIVE DesiredFrom(_, _, _, _)
DesiredFrom(c, ts_devices, k, m) ==
    IF k > Len(ts_devices) THEN m
    ELSE LET device == ts_devices[k]
             device_name == IF device.real_hostname # <<>>
                            THEN device.real_hostname ELSE device.name
         IN  IF device_name # <<>> /\ device.ip # ""
             THEN DesiredFrom(c, ts_devices, k + 1,
                      Put(m, [fqdn |-> GetRecordName(c, device_name).name,
                              ip |-> device.ip,
                              device_name |-> device_name]))
             ELSE DesiredFrom(c, ts_devices, k + 1, m)

\* get_desired_dns_records
GetDesiredDnsRecords(c, ts_devices) == DesiredFrom(c, ts_devices, 1, <<>>)

\* get_current_dns_records: the loop over current_records_raw[k..], into m.
RECURSIVE CurrentFrom(_, _, _)
CurrentFrom(raw, k, m) ==
    IF k > Len(raw) THEN m
    ELSE IF raw[k].type = "A"
         THEN CurrentFrom(raw, k + 1,
                  Put(m, [fqdn |-> Lower(raw[k].name), id |-> raw[k].id,
                          ip |-> raw[k].content, name |-> raw[k].name]))
         ELSE CurrentFrom(raw, k + 1, m)

\* GetCurrentDnsRecords that goes through the records from the last to the
\* first, so that of two records of one name the one listed first is kept.
GetCurrentDnsRecords_Backwards(raw) ==
    CurrentFrom([k \in DOMAIN raw |-> raw[Len(raw) + 1 - k]], 1, <<>>)

\* get_current_dns_records, given what get_all_managed_records returned.
GetCurrentDnsRecords(raw) == CurrentFrom(raw, 1, <<>>)

\* ---------------------------------------------------------------- counters
NoActions == [created |-> 0, updated |-> 0, deleted |-> 0, no_change |-> 0,
              errors |-> 0]

Count(a, field) == [a EXCEPT ![field] = @ + 1]

\* No record: what a call that raises returns.
NoRecord == [id |-> 0, name |-> <<>>, content |-> "", type |-> ""]

\* One remote call of a run, as a test double would record it: the operation,
\* its arguments (0, << >>, "" where it has none), the provider's answer to
\* its first request, and how it ended: "ok", "false" (delete_dns_record
\* returned False) or "raise"; refetch is what became of the second request
\* of a create that met a conflict ("none": there was no second request);
\* of a listing, exc is the exception it raised and pages the number of page
\* requests it made; of a create, ret is the record it returned.
Call(op, id, name, ip, resp, out) ==
    [op |-> op, id |-> id, name |-> name, ip |-> ip, resp |-> resp, out |-> out,
     refetch |-> "none", exc |-> "none", pages |-> 0, ret |-> NoRecord]

\* The answer recorded for a call that is not one HTTP exchange.
NoResp == Resp(0, FALSE, {})

Outcome(exc) == IF exc = "none" THEN "ok" ELSE "raise"

\* How a listing is recorded.
ListCall(ans, got) ==
    [Call("list", 0, <<>>, "", ans.resp, Outcome(got.exc))
       EXCEPT !.exc = got.exc, !.pages = got.pages]

Mutations == {"create", "update", "delete"}

\* ------------------------------------------------ the words of the claims
\* Ownership as the specification words it: the name ends, whatever the
\* letter case, with "." prefix "." domain.
Owned(name) ==
    LET suffix == Dot \o cf.subdomain_prefix \o Dot \o cf.domain
    IN  /\ Len(name) >= Len(suffix)
        /\ \A i \in 1..Len(suffix) :
              LowerChar(name[Len(name) - Len(suffix) + i]) = LowerChar(suffix[i])

\* Positions of the managed records of zone z: address records, owned name.
ManagedAt(z) == { i \in DOMAIN z : z[i].type = "A" /\ Owned(z[i].name) }

\* The managed records' fqdn -> address mapping, as a set of pairs.
ManagedMapping(z) == { << Lower(z[i].name), z[i].content >> : i \in ManagedAt(z) }

\* No two managed records of zone z have the same fqdn.
UniqueFqdns(z) ==
    \A i, j \in ManagedAt(z) : Lower(z[i].name) = Lower(z[j].name) => i = j

\* The short name of a reported device, and the devices that have one.
ShortName(d) == IF d.real_hostname # <<>> THEN d.real_hostname ELSE d.name

Named == { k \in DOMAIN peers : ShortName(peers[k]) # <<>> /\ peers[k].ip # "" }

\* The naming rule, up to letter case.
PeerFqdn(k) ==
    Lower(ShortName(peers[k])) \o Dot \o Lower(cf.subdomain_prefix)
        \o Dot \o Lower(cf.domain)

\* The mapping derived from the peers: one entry per fqdn, the later peer
\* winning when two peers have the same fqdn.
PeerMapping ==
    { << PeerFqdn(k), peers[k].ip >> :
        k \in { n \in Named : \A m \in Named : PeerFqdn(m) = PeerFqdn(n) => m <= n } }

\* The fqdns of the managed records of zone z, and of the peers.
ZoneFqdns(z) == { Lower(z[i].name) : i \in ManagedAt(z) }

PeerFqdns == { p[1] : p \in PeerMapping }

\* The address the peers give fqdn f (f is in PeerFqdns).
AddressOf(f) == (CHOOSE p \in PeerMapping : p[1] = f)[2]

\* The managed record of fqdn f that zone z lists last (f is in ZoneFqdns(z)).
LastOf(z, f) ==
    z[CHOOSE i \in ManagedAt(z) :
         /\ Lower(z[i].name) = f
         /\ \A j \in ManagedAt(z) : Lower(z[j].name) = f => j <= i]

\* The ids of the managed records of fqdn f in zone z.
IdsOf(z, f) == { z[i].id : i \in { j \in ManagedAt(z) : Lower(z[j].name) = f } }

\* The records of zone z that are not owned, in order.
Unowned(z) == SelectSeq(z, LAMBDA r : ~Owned(r.name))

\* How many changes of each kind the peers ask of zone z.
Expected(z) ==
    [created |-> Cardinality(PeerFqdns \ ZoneFqdns(z)),
     updated |-> Cardinality({ f \in PeerFqdns \cap ZoneFqdns(z) :
                                LastOf(z, f).content # AddressOf(f) }),
     deleted |-> Cardinality(ZoneFqdns(z) \ PeerFqdns),
     no_change |-> Cardinality({ f \in PeerFqdns \cap ZoneFqdns(z) :
                                  LastOf(z, f).content = AddressOf(f) }),
     errors |-> 0]

\* The fqdn a create or update call names, up to letter case.
CallFqdn(i) ==
    Lower(calls[i].name) \o Dot \o Lower(cf.subdomain_prefix)
        \o Dot \o Lower(cf.domain)

CallsOf(op) == { i \in DOMAIN calls : calls[i].op = op }

\* Positions of the create, update and delete calls of the current run.
MutationCalls == { i \in DOMAIN calls : calls[i].op \in Mutations }

AllCallsOk == \A i \in DOMAIN calls : calls[i].out = "ok"

\* A pass that makes its changes has reached its summary, every call of it
\* having succeeded.
CleanPassDone == pc = "summary" /\ cmd = "sync" /\ ~dry_run /\ AllCallsOk

\* A pass that makes its changes has reached its summary, some call of it
\* having failed: the batch was applied in part.
PartialPassDone == pc = "summary" /\ cmd = "sync" /\ ~dry_run /\ ~AllCallsOk

\* ------------------------------------------------------------- bookkeeping
\* What is remembered of a finished run: whether it was a pass that made its
\* changes, reached its summary and had every call succeed, or had some call
\* fail, and whether it started from a zone without two managed records of
\* one fqdn.
RunRecord ==
    [clean_pass |-> CleanPassDone, unique |-> UniqueFqdns(zone0),
     partial |-> PartialPassDone]

NoRun == [clean_pass |-> FALSE, unique |-> FALSE, partial |-> FALSE]

\* NextStale of a delete loop that acts on every current entry, desired or
\* not.
NextStale_EveryEntry(des, cur, j) == IF j >= Len(cur) THEN 0 ELSE j + 1

\* NextStale of a delete loop that looks no further than the entry after j.
RECURSIVE NextStale_OneLook(_, _, _)
NextStale_OneLook(des, cur, j) ==
    IF j >= Len(cur) THEN 0
    ELSE IF cur[j + 1].fqdn \notin Keys(des) THEN j + 1
    ELSE 0

\* First position after j of a current entry that the delete loop acts on
\* (its key is not desired), 0 when there is none.
RECURSIVE NextStale(_, _, _)
NextStale(des, cur, j) ==
    IF j >= Len(cur) THEN 0
    ELSE IF cur[j + 1].fqdn \notin Keys(des) THEN j + 1
    ELSE NextStale(des, cur, j + 1)

\* ------------------------------------------------- calls and their outcomes
\* create_dns_record, the except clause: what became of get_dns_records(name=
\* record_name) after the answer resp: not asked ("none"), it raised
\* ("failed"), it returned no record ("empty") or some ("found").
Refetch(resp, existing) ==
    IF ~(Request(resp) = "HTTPError" /\ RecordExists \in resp.codes) THEN "none"
    ELSE IF existing.exc # "none" THEN "failed"
    ELSE IF existing.records = <<>> THEN "empty"
    ELSE "found"

\* create_dns_record(device_name, ip) against zone z: every way the call can
\* end, as the exception raised ("none": it returned) and the zone left.
CreateOutcomes(c, z, nid, device_name, ip) ==
    LET record_name == GetRecordName(c, device_name)
    IN  IF record_name.exc # "none"
        THEN { [exc |-> record_name.exc, resp |-> NoResp, refetch |-> "none",
                 zone |-> z, ret |-> NoRecord] }
        ELSE UNION {
               { [exc |-> CreateDnsRecord(ans.resp,
                            GetDnsRecords(ans.zone, record_name.name, "A", again)),
                  resp |-> ans.resp,
                  refetch |-> Refetch(ans.resp,
                            GetDnsRecords(ans.zone, record_name.name, "A", again)),
                  zone |-> ans.zone,
                  ret |-> IF CreateDnsRecord(ans.resp,
                               GetDnsRecords(ans.zone, record_name.name, "A", again))
                             # "none"
                          THEN NoRecord
                          ELSE CreateResult(ans.resp,
                                 IF ans.zone = <<>> THEN NoRecord
                                 ELSE ans.zone[Len(ans.zone)],
                                 GetDnsRecords(ans.zone, record_name.name, "A", again))] :
                 again \in ListAnswers(ans.zone, record_name.name, "A") } :
               ans \in ProviderCreate(z, nid, record_name.name, ip) }

\* update_dns_record(record_id, device_name, ip) against zone z.
UpdateOutcomes(c, z, record_id, device_name, ip) ==
    LET record_name == GetRecordName(c, device_name)
    IN  IF record_name.exc # "none"
        THEN { [exc |-> record_name.exc, resp |-> NoResp, zone |-> z] }
        ELSE { [exc |-> UpdateDnsRecord(ans.resp), resp |-> ans.resp,
                zone |-> ans.zone] :
               ans \in ProviderUpdate(z, record_id, record_name.name, ip) }

\* delete_dns_record(record_id) against zone z: exception, return value, zone.
DeleteOutcomes(z, record_id) ==
    { [exc |-> DeleteDnsRecord(ans.resp).exc,
       ret |-> DeleteDnsRecord(ans.resp).ret,
       resp |-> ans.resp,
       zone |-> ans.zone] : ans \in ProviderDelete(z, record_id) }

\* How a delete call is recorded.
DeleteOut(o) ==
    IF o.exc # "none" THEN "raise" ELSE IF o.ret THEN "ok" ELSE "false"

\* ----------------------------------------------------------- configuration
\* A value of the JSON file or of the environment: a string (s), a number
\* (n), JSON null / Python None, or no value under that key.
Str(s) == [t |-> "str", s |-> s, n |-> 0]
Num(n) == [t |-> "int", s |-> <<>>, n |-> n]
Null == [t |-> "null", s |-> <<>>, n |-> 0]
Absent == [t |-> "absent", s |-> <<>>, n |-> 0]

LowerLetters ==
    << "a", "b", "c", "d", "e", "f", "g", "h", "i", "j", "k", "l", "m",
       "n", "o", "p", "q", "r", "s", "t", "u", "v", "w", "x", "y", "z" >>

UpperLetters ==
    << "A", "B", "C", "D", "E", "F", "G", "H", "I", "J", "K", "L", "M",
       "N", "O", "P", "Q", "R", "S", "T", "U", "V", "W", "X", "Y", "Z" >>

\* str.upper()
UpperChar(c) ==
    IF \E i \in DOMAIN LowerLetters : LowerLetters[i] = c
    THEN UpperLetters[CHOOSE i \in DOMAIN LowerLetters : LowerLetters[i] = c]
    ELSE c

Upper(s) == [i \in DOMAIN s |-> UpperChar(s[i])]

Digits == << "0", "1", "2", "3", "4", "5", "6", "7", "8", "9" >>

IsDigit(c) == \E i \in DOMAIN Digits : Digits[i] = c

DigitValue(c) == (CHOOSE i \in DOMAIN Digits : Digits[i] = c) - 1

\* The number a string of digits writes.
RECURSIVE Decimal(_)
Decimal(s) ==
    IF s = <<>> THEN 0
    ELSE 10 * Decimal(SubSeq(s, 1, Len(s) - 1)) + DigitValue(s[Len(s)])

\* int(x) as load_config calls it: of an integer, the integer; of a string,
\* the number it writes (digits, with a sign or without), ValueError when it
\* writes none; of None, TypeError.
IntOf(x) ==
    LET body == IF x.s # <<>> /\ x.s[1] = "-" THEN Tail(x.s) ELSE x.s
        sign == IF x.s # <<>> /\ x.s[1] = "-" THEN -1 ELSE 1
    IN  CASE x.t = "int" -> [exc |-> "none", n |-> x.n]
          [] x.t = "str" ->
                IF body # <<>> /\ \A i \in DOMAIN body : IsDigit(body[i])
                THEN [exc |-> "none", n |-> sign * Decimal(body)]
                ELSE [exc |-> "ValueError", n |-> 0]
          [] OTHER -> [exc |-> "TypeError", n |-> 0]

\* os.getenv(name, default), value being what the environment has for name.
Getenv(value, default) == IF value.t = "str" THEN value ELSE default

\* dict.get(key, default), value being what the dictionary has under key.
DictGet(value, default) == IF value.t = "absent" THEN default ELSE value

\* bool(value)
Truthy(value) ==
    CASE value.t = "str" -> value.s # <<>>
      [] value.t = "int" -> value.n # 0
      [] OTHER -> FALSE

\* valid_log_levels
ValidLogLevels ==
    { <<"D", "E", "B", "U", "G">>, <<"I", "N", "F", "O">>,
      <<"W", "A", "R", "N", "I", "N", "G">>, <<"E", "R", "R", "O", "R">>,
      <<"C", "R", "I", "T", "I", "C", "A", "L">> }

\* The default of subdomain_prefix, of interval_seconds and of log_level.
DefaultPrefix == <<"t", "s">>
DefaultInterval == 300
DefaultLogLevel == <<"I", "N", "F", "O">>

\* What load_config hands back: the exception it raised ("none": it
\* returned) and the settings of the configuration it returned.
Loaded(exc, settings) ==
    [exc |-> exc,
     api_token |-> settings.api_token, zone_id |-> settings.zone_id,
     domain |-> settings.domain,
     subdomain_prefix |-> settings.subdomain_prefix,
     interval_seconds |-> settings.interval_seconds,
     log_level |-> settings.log_level]

NoSettings ==
    [api_token |-> Absent, zone_id |-> Absent, domain |-> Absent,
     subdomain_prefix |-> Absent, interval_seconds |-> Absent,
     log_level |-> Absent]

\* validate_config: ValueError for a required Cloudflare setting that is
\* missing or empty, for an interval that is not a positive integer and for
\* a log level outside valid_log_levels; an empty prefix becomes "ts".
ValidateConfig(c) ==
    IF \E key \in {"api_token", "zone_id", "domain"} : ~Truthy(c[key])
    THEN Loaded("ValueError", NoSettings)
    ELSE IF c.interval_seconds.n <= 0
    THEN Loaded("ValueError", NoSettings)
    ELSE IF c.log_level.s \notin ValidLogLevels
    THEN Loaded("ValueError", NoSettings)
    ELSE Loaded("none",
                [c EXCEPT !.subdomain_prefix =
                    IF Truthy(@) THEN @ ELSE Str(DefaultPrefix)])

\* load_config: file is what is at the path ("missing": no such file,
\* "malformed": not JSON, "object": a JSON object with the settings it has),
\* env what the environment variables hold.
LoadConfigFrom(file, env) ==
    IF file.state = "malformed" THEN Loaded("ValueError", NoSettings)
    ELSE
    LET from_file == IF file.state = "object" THEN file.settings ELSE NoSettings
        interval == IntOf(Getenv(env.interval_seconds,
                                 DictGet(from_file.interval_seconds,
                                         Num(DefaultInterval))))
        log_level == Getenv(env.log_level,
                            DictGet(from_file.log_level, Str(DefaultLogLevel)))
    IN  IF log_level.t # "str" THEN Loaded("AttributeError", NoSettings)
        ELSE ValidateConfig(
               [api_token |-> Getenv(env.api_token,
                                     DictGet(from_file.api_token, Null)),
                zone_id |-> Getenv(env.zone_id,
                                   DictGet(from_file.zone_id, Null)),
                domain |-> Getenv(env.domain, DictGet(from_file.domain, Null)),
                subdomain_prefix |->
                    Getenv(env.subdomain_prefix,
                           DictGet(from_file.subdomain_prefix,
                                   Str(DefaultPrefix))),
                interval_seconds |->
                    Num(IF interval.exc = "none" THEN interval.n
                        ELSE DefaultInterval),
                log_level |-> Str(Upper(log_level.s))])

\* The values a file and the environment may give each setting.
FileValues ==
    [api_token |-> {Absent, Str(<<>>), Str(<<"k">>)},
     zone_id |-> {Absent, Str(<<"z">>)},
     domain |-> {Str(<<"x">>)},
     subdomain_prefix |-> {Absent, Null, Str(<<>>), Str(<<"p">>)},
     interval_seconds |-> {Absent, Null, Num(60), Num(0), Str(<<"a", "b">>)},
     log_level |-> {Absent, Null, Str(<<"d", "e", "b", "u", "g">>),
                    Str(<<"l", "o", "u", "d">>)}]

EnvValues ==
    [api_token |-> {Absent, Str(<<>>), Str(<<"e">>)},
     zone_id |-> {Absent},
     domain |-> {Absent, Str(<<"d">>)},
     subdomain_prefix |-> {Absent, Str(<<>>), Str(<<"q">>)},
     interval_seconds |-> {Absent, Str(<<"7">>), Str(<<"-", "5">>),
                           Str(<<"a", "b">>)},
     log_level |-> {Absent, Str(<<"i", "n", "f", "o">>), Str(<<>>)}]

\* Every way to give each setting one of its values.
Choices(values) ==
    [api_token : values.api_token, zone_id : values.zone_id,
     domain : values.domain, subdomain_prefix : values.subdomain_prefix,
     interval_seconds : values.interval_seconds,
     log_level : values.log_level]

Files ==
    { [state |-> "missing", settings |-> NoSettings],
      [state |-> "malformed", settings |-> NoSettings] }
    \cup { [state |-> "object", settings |-> f] : f \in Choices(FileValues) }

Environments == Choices(EnvValues)

\* Nothing read yet.
NoFile == [state |-> "missing", settings |-> NoSettings]
Unloaded == Loaded("unloaded", NoSettings)

\* ---------------------------------------------------------------- the agent
\* Addresses as the agent writes them, shortened: one of the mesh ("100.1"),
\* a link-local one ("169.254.1"), an IPv4 one of another network ("10.1")
\* and an IPv6 one ("fd::1").
Mesh == <<"1", "0", "0", ".", "1">>
LinkLocal == <<"1", "6", "9", ".", "2", "5", "4", ".", "1">>
Lan == <<"1", "0", ".", "1">>
V6 == <<"f", "d", ":", ":", "1">>

\* `c in s` for a character c
Contains(s, c) == \E i \in DOMAIN s : s[i] = c

\* str.startswith(prefix)
StartsWith(s, prefix) ==
    /\ Len(s) >= Len(prefix)
    /\ SubSeq(s, 1, Len(prefix)) = prefix

\* Suitable with link-local addresses taken like any other IPv4 address.
Suitable_LinkLocalToo(ip) == Contains(ip, ".")

\* get_devices, the test on one address:
\* "." in ip and (ip.startswith("100.") or not ip.startswith("169.254"))
Suitable(ip) ==
    /\ Contains(ip, ".")
    /\ \/ StartsWith(ip, <<"1", "0", "0", ".">>)
       \/ ~StartsWith(ip, <<"1", "6", "9", ".", "2", "5", "4">>)

\* get_devices, the loop over TailscaleIPs from position k: the first
\* suitable address, <<>> (None) when there is none.
RECURSIVE FirstSuitable(_, _)
FirstSuitable(ips, k) ==
    IF k > Len(ips) THEN <<>>
    ELSE IF Suitable(ips[k]) THEN ips[k]
    ELSE FirstSuitable(ips, k + 1)

\* str.split(".")[0]
RECURSIVE FirstLabel(_)
FirstLabel(s) ==
    IF s = <<>> \/ s[1] = "." THEN <<>>
    ELSE <<s[1]>> \o FirstLabel(Tail(s))

Unknown == <<"u", "n", "k", "n", "o", "w", "n">>

\* RealHostname with the HostName field always taken.
RealHostname_HostNameOnly(fqdn, host) == host

\* get_devices: fqdn.split(".")[0] if fqdn else device.get("HostName", "unknown")
RealHostname(fqdn, host) == IF fqdn # <<>> THEN FirstLabel(fqdn) ELSE host

\* get_devices: the dictionary appended for one device of the status whose
\* first suitable address is ip.
ActiveDevice(device, ip) ==
    LET fqdn == DictGet(device.DNSName, Str(<<>>)).s
        host == DictGet(device.HostName, Str(Unknown)).s
    IN  [id |-> device.id, name |-> host, fqdn |-> fqdn, ip |-> ip,
         real_hostname |-> RealHostname(fqdn, host)]

\* get_devices, the loop over peer_data.items() from position k, and then
\* self_data (a list with the local device, or with nothing), appending to
\* active_devices.  A device without addresses, or without a suitable one,
\* is skipped.
RECURSIVE CollectDevices(_, _, _)
CollectDevices(devices, k, active) ==
    IF k > Len(devices) THEN active
    ELSE LET ip == FirstSuitable(devices[k].TailscaleIPs, 1)
         IN  CollectDevices(devices, k + 1,
                 IF ip # <<>> THEN Append(active, ActiveDevice(devices[k], ip))
                 ELSE active)

\* RunTailscaleCommand with every failure turned into ValueError.
RunTailscaleCommand_AllValueError(a) ==
    IF a.run = "ok" THEN "none" ELSE "ValueError"

\* _run_tailscale_command: the exception it raises ("none": it returned the
\* parsed status).  subprocess.run raises FileNotFoundError when there is no
\* tailscale command, which the `except Exception` clause logs and re-raises;
\* a non-zero exit status (CalledProcessError) and output that is not JSON
\* (JSONDecodeError) are raised again as ValueError.
RunTailscaleCommand(a) ==
    CASE a.run = "ok" -> "none"
      [] a.run = "not_installed" -> "FileNotFoundError"
      [] a.run = "nonzero_exit" -> "ValueError"
      [] a.run = "invalid_json" -> "ValueError"

\* get_devices: the remote peers in the order of the status, then the local
\* device; an exception of _run_tailscale_command is logged and re-raised.
TailscaleGetDevices(a) ==
    LET exc == RunTailscaleCommand(a)
    IN  IF exc # "none" THEN [exc |-> exc, devices |-> <<>>]
        ELSE [exc |-> "none",
              devices |-> CollectDevices(a.Self, 1,
                              CollectDevices(a.Peer, 1, <<>>))]

\* The name fields and the address lists a device of the status may have.
NameKinds ==
    { [HostName |-> Str(<<"h">>), DNSName |-> Str(<<"a", ".", "t">>)],
      [HostName |-> Str(<<"h">>), DNSName |-> Str(<<>>)],
      [HostName |-> Str(<<"H">>), DNSName |-> Absent],
      [HostName |-> Str(<<>>),    DNSName |-> Str(<<>>)],
      [HostName |-> Absent,       DNSName |-> Absent] }

AddressLists ==
    { <<>>, <<LinkLocal, V6>>, <<V6, Mesh>>, <<LinkLocal, Mesh>>,
      <<Lan, Mesh>>, <<Mesh, Lan>> }

\* A device of the status: its key (id) and its fields.
StatusDevice(id, names, ips) ==
    [id |-> id, HostName |-> names.HostName, DNSName |-> names.DNSName,
     TailscaleIPs |-> ips]

\* The lists of n devices with ids first, first + 1, ...
RECURSIVE DeviceLists(_, _)
DeviceLists(n, first) ==
    IF n = 0 THEN { <<>> }
    ELSE { <<StatusDevice(first, names, ips)>> \o rest :
              names \in NameKinds, ips \in AddressLists,
              rest \in DeviceLists(n - 1, first + 1) }

\* What running the command gives: a failure, or a status with at most
\* MaxStatusPeers peers (ids 1, 2, ...) and the local device (id 0) or none.
Agents ==
    { [run |-> r, Peer |-> <<>>, Self |-> <<>>] :
        r \in {"not_installed", "nonzero_exit", "invalid_json"} }
    \cup { [run |-> "ok", Peer |-> p, Self |-> s] :
             p \in UNION { DeviceLists(n, 1) : n \in 0..MaxStatusPeers },
             s \in DeviceLists(0, 0) \cup DeviceLists(1, 0) }

\* Nothing asked of the agent yet.
NoAgent == [run |-> "ok", Peer |-> <<>>, Self |-> <<>>]
Unasked == [exc |-> "unasked", devices |-> <<>>]

\* ------------------------------------------------------------- one listing
\* What the provider answers to the request for one page: how many records
\* are on it, and the total_pages of its result_info (NoTotal: the answer has
\* no total_pages).
NoTotal == -1

PageAnswers ==
    [records : 0..1, total_pages : {NoTotal} \cup 0..(MaxPages + 1)]

\* The provider's answers to the requests for pages 1, 2, ..; a page past
\* the last one listed is empty and has no result_info.
Scripts == SeqsUpTo(PageAnswers, MaxPages)

Answer(script, page) ==
    IF page <= Len(script) THEN script[page]
    ELSE [records |-> 0, total_pages |-> NoTotal]

\* PagesRequested of a loop that goes on until a page is empty.
RECURSIVE PagesRequested_IgnoresTotal(_, _)
PagesRequested_IgnoresTotal(script, page) ==
    IF Answer(script, page).records = 0 THEN << page >>
    ELSE << page >> \o PagesRequested_IgnoresTotal(script, page + 1)

\* The while loop of get_dns_records, from `page` on: the page numbers it
\* requests, in order, every request being answered.
RECURSIVE PagesRequested(_, _)
PagesRequested(script, page) ==
    LET data == Answer(script, page)
        total_pages == IF data.total_pages = NoTotal THEN 1 ELSE data.total_pages
    IN  IF data.records = 0 THEN << page >>
        ELSE IF page >= total_pages THEN << page >>
        ELSE << page >> \o PagesRequested(script, page + 1)

NoListing == [script |-> <<>>, asked |-> <<>>]

\* No pass has finished, or no log is kept.
NoPass ==
    [pass |-> FALSE, dry_run |-> FALSE, current |-> <<>>, asked |-> <<>>,
     outs |-> <<>>, actions |-> NoActions]

\* ------------------------------------------------------------------ actions
Init ==
    /\ cf \in Configs
    /\ peers \in { q \in SeqsUpTo(DeviceKinds, MaxPeers) : NoRepeat(q) }
    /\ \E kinds \in { q \in SeqsUpTo(RecordKinds, MaxZone) : NoRepeat(q) } :
          zone = [i \in DOMAIN kinds |->
                    [id |-> i, name |-> kinds[i].name,
                     content |-> kinds[i].content, type |-> kinds[i].type]]
    /\ nextId = Len(zone) + 1
    /\ pc = "idle"
    /\ cmd = "none"
    /\ dry_run = FALSE
    /\ desired = <<>>
    /\ current = <<>>
    /\ managed_records = <<>>
    /\ idx = 0
    /\ actions = NoActions
    /\ calls = <<>>
    /\ zone0 = zone
    /\ prev = NoRun
    /\ otherWrites = 0
    /\ others = <<>>
    /\ config_file = NoFile
    /\ environ = NoSettings
    /\ config = Unloaded
    /\ agent = NoAgent
    /\ active_devices = Unasked
    /\ listing = NoListing
    /\ last = NoPass

\* main, `config = load_config(args.config)`: how the call ends.  load_config
\* and validate_config raise ValueError; main also handles FileNotFoundError;
\* AttributeError (see LoadConfigFrom) is handled nowhere and ends the process.
LoadConfig == {"none", "ValueError", "FileNotFoundError", "AttributeError"}

\* main, the try around load_config: where main goes after it, c being the
\* operation asked for on the command line.  Both except clauses end in
\* sys.exit(1), before the API objects are built.
AfterLoadConfig(exc, c) ==
    IF exc # "none" THEN "config_error"
    ELSE IF c = "sync" THEN "get_devices" ELSE "cleanup_list"

\* main: the driver loads the configuration, then starts synchronize_dns or
\* cleanup_cloudflare_records.
StartRun ==
    /\ pc = "idle"
    /\ nextId <= MaxId
    /\ \E c \in {"sync", "cleanup"}, d \in BOOLEAN, exc \in LoadConfig :
          LET to == AfterLoadConfig(exc, c) IN
          /\ pc' = to
          /\ cmd' = IF to = "config_error" THEN "none" ELSE c
          /\ dry_run' = IF to = "config_error" THEN FALSE ELSE d
    /\ zone0' = zone
    /\ UNCHANGED << boundary, last, cf, peers, zone, nextId, desired, current, idx, actions,
                    calls, prev, otherWrites, others, managed_records >>

\* Mutating with the dry_run argument ignored.
Mutating_Always == TRUE

\* Mutating with the changes held back until a pass has ended cleanly.
Mutating_AfterCleanPass == ~dry_run /\ prev.clean_pass

\* `if not dry_run`: whether the run makes its remote changes.
Mutating == ~dry_run

\* AfterGetDevices with a failure of get_devices logged and not returned from.
AfterGetDevices_Proceeds(exc) == "list"

\* AfterGetDevices with "Nothing to sync" taken literally: an empty device
\* list ends the pass.
AfterGetDevices_StopsOnEmpty(exc) ==
    IF exc = "none" /\ peers # <<>> THEN "list" ELSE "returned"

\* Where synchronize_dns goes once get_devices has returned or raised exc.
AfterGetDevices(exc) == IF exc = "none" THEN "list" ELSE "returned"

\* Classify that never looks the entry up in the current map.
Classify_NeverLooksUp(cur, desired_state) == "create"

\* Classify with a present record never compared by address.
Classify_IgnoresAddress(cur, desired_state) ==
    IF desired_state.fqdn \notin Keys(cur) THEN "create" ELSE "no_change"

\* Classify with a present record always rewritten.
Classify_AlwaysUpdates(cur, desired_state) ==
    IF desired_state.fqdn \notin Keys(cur) THEN "create" ELSE "update"

\* The branch of the loop over desired_records_map taken for one entry.
Classify(cur, desired_state) ==
    IF desired_state.fqdn \notin Keys(cur) THEN "create"
    ELSE IF Get(cur, desired_state.fqdn).ip # desired_state.ip THEN "update"
    ELSE "no_change"

\* Continue with the first failing call ending the loops.
Continue_Aborts(to, exc) ==
    IF exc = "none" THEN to ELSE [pc |-> "summary", idx |-> 0]

\* The except clause around one create, update or delete: the error is
\* counted and the loop goes on to position `to`.
Continue(to, exc) == to

\* synchronize_dns, to the desired map: ts_api.get_devices() returns the
\* device list or raises (ValueError, or anything else).
GetDevices ==
    /\ pc = "get_devices"
    /\ \E exc \in {"none", "ValueError", "Exception"} :
          /\ calls' = Append(calls, Call("get_devices", 0, <<>>, "", NoResp, Outcome(exc)))
          /\ pc' = AfterGetDevices(exc)
          /\ desired' = IF exc = "none" THEN GetDesiredDnsRecords(cf, peers)
                         ELSE desired
    /\ UNCHANGED << boundary, last, cf, peers, zone, nextId, cmd, dry_run, current, idx,
                    actions, zone0, prev, otherWrites, others, managed_records >>

\* AfterApply of a pass that ends after the loop over the desired map.
AfterApply_NoDeleteLoop(des, cur, i) ==
    IF i < Len(des) THEN [pc |-> "apply", idx |-> i + 1]
    ELSE [pc |-> "summary", idx |-> 0]

\* Where the pass goes after the desired entry at position i.
AfterApply(des, cur, i) ==
    IF i < Len(des) THEN [pc |-> "apply", idx |-> i + 1]
    ELSE IF NextStale(des, cur, 0) # 0
    THEN [pc |-> "delete", idx |-> NextStale(des, cur, 0)]
    ELSE [pc |-> "summary", idx |-> 0]

\* AfterDelete that leaves the loop after the first stale entry.
AfterDelete_StopsAtFirst(des, cur, j) == [pc |-> "summary", idx |-> 0]

\* Where the pass goes after the current entry at position j.
AfterDelete(des, cur, j) ==
    IF NextStale(des, cur, j) # 0
    THEN [pc |-> "delete", idx |-> NextStale(des, cur, j)]
    ELSE [pc |-> "summary", idx |-> 0]

\* synchronize_dns, the current map: get_current_dns_records(cf_api) returns
\* the map or raises, and the counters start at zero.
ListManaged ==
    /\ pc = "list"
    /\ \E ans \in ListAnswers(zone, <<>>, "A") :
          LET got == GetAllManagedRecords(cf, zone, ans)
              cur == GetCurrentDnsRecords(got.records)
              to == AfterApply(desired, cur, 0)
          IN  /\ calls' = Append(calls, ListCall(ans, got))
              /\ IF got.exc = "none"
                 THEN /\ current' = cur
                      /\ pc' = to.pc
                      /\ idx' = to.idx
                 ELSE /\ current' = current
                      /\ pc' = "returned"
                      /\ idx' = idx
    /\ actions' = NoActions
    /\ UNCHANGED << boundary, last, cf, peers, zone, nextId, cmd, dry_run, desired, zone0,
                    prev, otherWrites, others, managed_records >>

\* synchronize_dns, one turn of the loop over desired_records_map.
ApplyDesired ==
    /\ pc = "apply"
    /\ LET desired_state == desired[idx]
           fqdn == desired_state.fqdn
           device_name_for_cf == desired_state.device_name
           branch == Classify(current, desired_state)
           to == AfterApply(desired, current, idx)
       IN  IF branch = "create"
           THEN IF Mutating
                THEN \E o \in CreateOutcomes(cf, zone, nextId,
                                             device_name_for_cf, desired_state.ip) :
                        /\ zone' = o.zone
                        /\ nextId' = IF o.zone # zone THEN nextId + 1 ELSE nextId
                        /\ calls' = Append(calls,
                              [Call("create", 0, device_name_for_cf,
                                    desired_state.ip, o.resp, Outcome(o.exc))
                                 EXCEPT !.refetch = o.refetch, !.ret = o.ret])
                        /\ actions' = IF o.exc = "none"
                                      THEN Count(actions, "created")
                                      ELSE Count(actions, "errors")
                        /\ pc' = Continue(to, o.exc).pc
                        /\ idx' = Continue(to, o.exc).idx
                ELSE /\ actions' = Count(actions, "created")
                     /\ pc' = to.pc
                     /\ idx' = to.idx
                     /\ UNCHANGED << zone, nextId, calls >>
           ELSE IF branch = "update"
           THEN IF Mutating
                THEN \E o \in UpdateOutcomes(cf, zone, Get(current, fqdn).id,
                                             device_name_for_cf, desired_state.ip) :
                        /\ zone' = o.zone
                        /\ nextId' = nextId
                        /\ calls' = Append(calls,
                              Call("update", Get(current, fqdn).id,
                                   device_name_for_cf, desired_state.ip,
                                   o.resp, Outcome(o.exc)))
                        /\ actions' = IF o.exc = "none"
                                      THEN Count(actions, "updated")
                                      ELSE Count(actions, "errors")
                        /\ pc' = Continue(to, o.exc).pc
                        /\ idx' = Continue(to, o.exc).idx
                ELSE /\ actions' = Count(actions, "updated")
                     /\ pc' = to.pc
                     /\ idx' = to.idx
                     /\ UNCHANGED << zone, nextId, calls >>
           ELSE /\ actions' = Count(actions, "no_change")
                /\ pc' = to.pc
                /\ idx' = to.idx
                /\ UNCHANGED << zone, nextId, calls >>
    /\ UNCHANGED << boundary, last, cf, peers, cmd, dry_run, desired, current, zone0, prev,
                    otherWrites, others, managed_records >>

\* synchronize_dns, one turn of the loop over current_records_map that finds
\* a key outside desired_fqdns.
DeleteStale ==
    /\ pc = "delete"
    /\ LET current_state == current[idx]
           to == AfterDelete(desired, current, idx)
       IN  IF Mutating
           THEN \E o \in DeleteOutcomes(zone, current_state.id) :
                   /\ zone' = o.zone
                   /\ calls' = Append(calls,
                         Call("delete", current_state.id, <<>>, "", o.resp,
                              DeleteOut(o)))
                   /\ actions' = IF o.exc = "none"
                                 THEN Count(actions, "deleted")
                                 ELSE Count(actions, "errors")
                   /\ pc' = Continue(to, o.exc).pc
                   /\ idx' = Continue(to, o.exc).idx
           ELSE /\ actions' = Count(actions, "deleted")
                /\ pc' = to.pc
                /\ idx' = to.idx
                /\ UNCHANGED << zone, calls >>
    /\ UNCHANGED << boundary, last, cf, peers, nextId, cmd, dry_run, desired, current, zone0,
                    prev, otherWrites, others, managed_records >>

\* cleanup_cloudflare_records, to the loop: get_all_managed_records() raises
\* (caught at the end of the function), returns nothing, or returns records.
CleanupList ==
    /\ pc = "cleanup_list"
    /\ \E ans \in ListAnswers(zone, <<>>, "A") :
          LET got == GetAllManagedRecords(cf, zone, ans)
          IN  /\ calls' = Append(calls, ListCall(ans, got))
              /\ IF got.exc = "none" /\ got.records # <<>>
                 THEN /\ managed_records' = got.records
                      /\ pc' = "cleanup_delete"
                      /\ idx' = 1
                 ELSE /\ managed_records' = managed_records
                      /\ pc' = "returned"
                      /\ idx' = idx
    /\ actions' = NoActions
    /\ UNCHANGED << boundary, last, cf, peers, zone, nextId, cmd, dry_run, desired, current,
                    zone0, prev, otherWrites, others >>

\* cleanup_cloudflare_records, one turn of the loop over managed_records
\* (deleted_count and error_count are actions.deleted and actions.errors).
CleanupDelete ==
    /\ pc = "cleanup_delete"
    /\ LET record == managed_records[idx]
           to == IF idx < Len(managed_records)
                 THEN [pc |-> "cleanup_delete", idx |-> idx + 1]
                 ELSE [pc |-> "summary", idx |-> 0]
       IN  IF Mutating
           THEN \E o \in DeleteOutcomes(zone, record.id) :
                   /\ zone' = o.zone
                   /\ calls' = Append(calls,
                         Call("delete", record.id, <<>>, "", o.resp, DeleteOut(o)))
                   /\ actions' = IF o.exc = "none"
                                 THEN Count(actions, "deleted")
                                 ELSE Count(actions, "errors")
                   /\ pc' = Continue(to, o.exc).pc
                   /\ idx' = Continue(to, o.exc).idx
           ELSE /\ actions' = Count(actions, "deleted")
                /\ pc' = to.pc
                /\ idx' = to.idx
                /\ UNCHANGED << zone, calls >>
    /\ UNCHANGED << boundary, last, cf, peers, nextId, cmd, dry_run, desired, current, zone0,
                    prev, otherWrites, others, managed_records >>

\* ExitCode with a configuration error logged and exited from with code 0.
ExitCode_ZeroOnConfigError ==
    IF pc \in {"summary", "returned", "validated", "config_error"} THEN 0 ELSE -1

\* main: the code the process exits with from where the run stands, -1 while
\* it is under way.  A configuration error is sys.exit(1); after
\* cleanup_cloudflare_records main calls sys.exit(0); after synchronize_dns
\* has returned, from its end or from one of its early returns, main logs
\* "Synchronization complete." and runs off its end.  (The except clause of
\* the single run is for an exception synchronize_dns lets through; it lets
\* none through.)  After validate_api_tokens main calls sys.exit(0).
ExitCode ==
    IF pc = "config_error" THEN 1
    ELSE IF pc \in {"summary", "returned", "validated"} THEN 0
    ELSE -1

\* The run is over: its summary is logged (pc = "summary") or it returned
\* early (pc = "returned"); nothing of it is kept but the log.
Finish ==
    /\ pc \in {"summary", "returned", "validated", "config_error"}
    /\ prev' = RunRecord
    /\ pc' = "idle"
    /\ cmd' = "none"
    /\ dry_run' = FALSE
    /\ desired' = <<>>
    /\ current' = <<>>
    /\ managed_records' = <<>>
    /\ idx' = 0
    /\ actions' = NoActions
    /\ calls' = <<>>
    /\ zone0' = zone
    /\ others' = <<>>
    /\ UNCHANGED << boundary, cf, peers, zone, nextId, otherWrites >>

EndRun == Finish /\ UNCHANGED last

\* What the log of a pass that reached its summary shows: whether it was a
\* dry run, the managed records it fetched, the create, update and delete
\* calls it made and how each ended, and its counters.
PassLog ==
    LET made == SelectSeq(calls, LAMBDA c : c.op \in Mutations)
    IN  [pass |-> TRUE, dry_run |-> dry_run, current |-> current,
         asked |-> [i \in DOMAIN made |->
                      [op |-> made[i].op, id |-> made[i].id,
                       name |-> made[i].name, ip |-> made[i].ip]],
         outs |-> [i \in DOMAIN made |-> made[i].out],
         actions |-> actions]

\* The run is over, and the log of a pass is kept for the next run to be
\* compared with.
EndRunLogged ==
    /\ Finish
    /\ last' = IF pc = "summary" /\ cmd = "sync" THEN PassLog ELSE NoPass

\* The name validate_api_tokens asks the provider for (it stands for
\* "example-validation-record.nonexistent").
ValidationName == <<"e", ".", "n">>

\* main with --validate-config: the configuration is loaded as for any
\* other operation, then validate_api_tokens is called.
StartValidate ==
    /\ pc = "idle"
    /\ \E exc \in LoadConfig :
          /\ pc' = IF exc # "none" THEN "config_error" ELSE "validate_ts"
          /\ cmd' = IF exc # "none" THEN "none" ELSE "validate"
    /\ dry_run' = FALSE
    /\ zone0' = zone
    /\ UNCHANGED << boundary, last, cf, peers, zone, nextId, desired, current, idx, actions,
                    calls, prev, otherWrites, others, managed_records >>

\* AfterValidateTailscale of a validation that gives up when the first
\* check fails.
AfterValidateTailscale_StopsOnFailure(exc) ==
    IF exc = "none" THEN "validate_cf" ELSE "validated"

\* validate_api_tokens: where it goes after the first try statement, exc
\* being what get_devices raised.
AfterValidateTailscale(exc) == "validate_cf"

\* validate_api_tokens, the first try statement: TailscaleAPI().get_devices()
\* returns or raises, and either except clause logs the error.
ValidateTailscale ==
    /\ pc = "validate_ts"
    /\ \E exc \in {"none", "ValueError", "Exception"} :
          /\ calls' = Append(calls, Call("get_devices", 0, <<>>, "", NoResp, Outcome(exc)))
          /\ pc' = AfterValidateTailscale(exc)
    /\ UNCHANGED << boundary, last, cf, peers, zone, nextId, cmd, dry_run, desired, current,
                    idx, actions, zone0, prev, otherWrites, others, managed_records >>

\* validate_api_tokens, the second try statement: get_dns_records(name=...,
\* record_type="TXT") returns or raises, and either except clause logs the
\* error; the function logs its verdict and returns.
ValidateCloudflare ==
    /\ pc = "validate_cf"
    /\ \E ans \in ListAnswers(zone, ValidationName, "TXT") :
          LET got == GetDnsRecords(zone, ValidationName, "TXT", ans)
          IN  calls' = Append(calls,
                 [Call("probe", 0, ValidationName, "", ans.resp, Outcome(got.exc))
                    EXCEPT !.exc = got.exc, !.pages = got.pages])
    /\ pc' = "validated"
    /\ UNCHANGED << boundary, last, cf, peers, zone, nextId, cmd, dry_run, desired, current,
                    idx, actions, zone0, prev, otherWrites, others, managed_records >>

\* Another client of the same zone removes a record, or adds one, between the
\* listing of a run and one of its calls.
OtherWriter ==
    /\ pc \in {"apply", "delete", "cleanup_delete"}
    /\ otherWrites < MaxOther
    /\ otherWrites' = otherWrites + 1
    /\ \/ /\ \E id \in Ids(zone) :
               /\ zone' = SelectSeq(zone, LAMBDA r : r.id # id)
               /\ others' = Append(others, [op |-> "remove",
                                            record |-> RecordById(zone, id)])
          /\ nextId' = nextId
       \/ /\ \E k \in RecordKinds :
               /\ \A i \in DOMAIN zone :
                     ~ (/\ zone[i].type = k.type
                        /\ Lower(zone[i].name) = Lower(k.name)
                        /\ zone[i].content = k.content)
               /\ zone' = Append(zone, [id |-> nextId, name |-> k.name,
                                        content |-> k.content, type |-> k.type])
               /\ others' = Append(others,
                     [op |-> "add",
                      record |-> [id |-> nextId, name |-> k.name,
                                  content |-> k.content, type |-> k.type]])
          /\ nextId' = nextId + 1
    /\ UNCHANGED << boundary, last, cf, peers, pc, cmd, dry_run, desired, current, idx, actions,
                    calls, zone0, prev, managed_records >>

Next ==
    \/ StartRun
    \/ GetDevices
    \/ ListManaged
    \/ ApplyDesired
    \/ DeleteStale
    \/ CleanupList
    \/ CleanupDelete
    \/ EndRun

Spec == Init /\ [][Next]_vars

NextEnv == Next \/ OtherWriter

SpecEnv == Init /\ [][NextEnv]_vars

\* The same runs, the log of each finished pass being kept until the next
\* run ends.
NextLogged ==
    \/ StartRun
    \/ GetDevices
    \/ ListManaged
    \/ ApplyDesired
    \/ DeleteStale
    \/ CleanupList
    \/ CleanupDelete
    \/ EndRunLogged

SpecLogged == Init /\ [][NextLogged]_vars

\* The same runs, and runs of main with --validate-config.
NextValidate ==
    \/ Next
    \/ StartValidate
    \/ ValidateTailscale
    \/ ValidateCloudflare

SpecValidate == Init /\ [][NextValidate]_vars

\* ------------------------------------------------- the boundary on its own
\* load_config and get_devices are functions of what they read; each is
\* checked over the files, environments and agent answers listed above, no
\* run being under way.
NoRunYet ==
    /\ cf \in Configs
    /\ peers = <<>>
    /\ zone = <<>>
    /\ nextId = 1
    /\ pc = "idle"
    /\ cmd = "none"
    /\ dry_run = FALSE
    /\ desired = <<>>
    /\ current = <<>>
    /\ managed_records = <<>>
    /\ idx = 0
    /\ actions = NoActions
    /\ calls = <<>>
    /\ zone0 = <<>>
    /\ prev = NoRun
    /\ otherWrites = 0
    /\ others = <<>>
    /\ last = NoPass

InitConfig ==
    /\ NoRunYet
    /\ config_file \in Files
    /\ environ \in Environments
    /\ config = Unloaded
    /\ agent = NoAgent
    /\ active_devices = Unasked
    /\ listing = NoListing

\* config = load_config(path)
RunLoadConfig ==
    /\ config = Unloaded
    /\ config' = LoadConfigFrom(config_file, environ)
    /\ UNCHANGED << running, last, config_file, environ, agent, active_devices,
                    listing >>

SpecConfig == InitConfig /\ [][RunLoadConfig]_vars

InitAgent ==
    /\ NoRunYet
    /\ config_file = NoFile
    /\ environ = NoSettings
    /\ config = Unloaded
    /\ agent \in Agents
    /\ active_devices = Unasked
    /\ listing = NoListing

\* ts_devices = ts_api.get_devices()
RunGetDevices ==
    /\ active_devices = Unasked
    /\ active_devices' = TailscaleGetDevices(agent)
    /\ UNCHANGED << running, last, config_file, environ, config, agent, listing >>

SpecAgent == InitAgent /\ [][RunGetDevices]_vars

\* ---------------------------------------------------- one listing, run
InitPaging ==
    /\ NoRunYet
    /\ config_file = NoFile
    /\ environ = NoSettings
    /\ config = Unloaded
    /\ agent = NoAgent
    /\ active_devices = Unasked
    /\ listing \in { [script |-> sc, asked |-> <<>>] : sc \in Scripts }

\* cf_api.get_dns_records(...), every page request answered.
RunListing ==
    /\ listing.asked = <<>>
    /\ listing' = [listing EXCEPT !.asked = PagesRequested(listing.script, 1)]
    /\ UNCHANGED << running, last, config_file, environ, config, agent,
                    active_devices >>

SpecPaging == InitPaging /\ [][RunListing]_vars

\* ------------------------------------------------------- one create call
\* The short names and addresses create_dns_record is called with.
CreateNames == { <<"a">>, <<"A">>, <<"b">> }

CreateAddresses == { "ip1", "ip2" }

InitCreate == Init /\ peers = <<>>

\* cf_api.create_dns_record(device_name, ip_address), called once on a zone
\* in whatever state.
RunCreate ==
    /\ pc = "idle"
    /\ calls = <<>>
    /\ \E device_name \in CreateNames, ip_address \in CreateAddresses :
          \E o \in CreateOutcomes(cf, zone, nextId, device_name, ip_address) :
             /\ zone' = o.zone
             /\ nextId' = IF o.zone # zone THEN nextId + 1 ELSE nextId
             /\ calls' = << [Call("create", 0, device_name, ip_address, o.resp,
                                  Outcome(o.exc))
                               EXCEPT !.refetch = o.refetch, !.ret = o.ret] >>
    /\ UNCHANGED << boundary, last, cf, peers, pc, cmd, dry_run, desired, current,
                    idx, actions, zone0, prev, otherWrites, others,
                    managed_records >>

SpecCreate == InitCreate /\ [][RunCreate]_vars

\* ------------------------------------------------------------------ naming
\* The short names, prefixes and domains the naming rule is tried on: text
\* of at most MaxLabel characters over letters of either case, a capital
\* sigma and a digit.
Texts(alphabet) == SeqsUpTo(alphabet, MaxLabel) \ { <<>> }

ShortNames == Texts({"a", "A", "Σ", "1"})

NamingConfigs ==
    { [subdomain_prefix |-> p, domain |-> d] :
        p \in Texts({"t", "T", "Σ"}), d \in Texts({"x", "X", "1"}) }

InitNaming ==
    /\ NoRunYet
    /\ config_file = NoFile
    /\ environ = NoSettings
    /\ config = Unloaded
    /\ agent = NoAgent
    /\ active_devices = Unasked
    /\ listing = NoListing

\* CloudflareAPI(.., subdomain_prefix, domain) is made for some prefix and
\* domain, and get_devices reports one device.
ChooseNames ==
    /\ pc = "idle"
    /\ \E c \in NamingConfigs, n \in ShortNames :
          /\ cf' = c
          /\ peers' = << [name |-> n, real_hostname |-> n, ip |-> "ip1"] >>
    /\ pc' = "chosen"
    /\ UNCHANGED << boundary, last, zone, nextId, cmd, dry_run, desired, current,
                    idx, actions, calls, zone0, prev, otherWrites, others,
                    managed_records >>

\* get_desired_dns_records, and create_dns_record for each entry of the map,
\* every call answered with success: the provider files the record under the
\* name it was sent.
NameRecords ==
    /\ pc = "chosen"
    /\ desired' = GetDesiredDnsRecords(cf, peers)
    /\ zone' = [k \in DOMAIN desired' |->
                  [id |-> k,
                   name |-> GetRecordName(cf, desired'[k].device_name).name,
                   content |-> desired'[k].ip, type |-> "A"]]
    /\ nextId' = Len(zone') + 1
    /\ pc' = "named"
    /\ UNCHANGED << boundary, last, cf, peers, cmd, dry_run, current, idx, actions,
                    calls, zone0, prev, otherWrites, others, managed_records >>

\* The next pass: get_all_managed_records and get_current_dns_records, the
\* listing answered with success.
ListNamed ==
    /\ pc = "named"
    /\ managed_records' =
          GetAllManagedRecords(cf, zone, [resp |-> OkResp, at |-> 0]).records
    /\ current' = GetCurrentDnsRecords(managed_records')
    /\ pc' = "listed"
    /\ UNCHANGED << boundary, last, cf, peers, zone, nextId, cmd, dry_run, desired,
                    idx, actions, calls, zone0, prev, otherWrites, others >>

NextNaming == ChooseNames \/ NameRecords \/ ListNamed

SpecNaming == InitNaming /\ [][NextNaming]_vars

\* ===================================================================== C1
\* C1 as claimed: from any peers and any initial zone, a pass that makes its
\* changes and in which no call fails leaves the managed records' fqdn ->
\* address mapping equal to the mapping derived from the peers.
C1_ConvergenceAnyZone ==
    CleanPassDone => ManagedMapping(zone) = PeerMapping

\* C1 as amended: the same, for an initial zone in which no two managed
\* records have the same fqdn.
C1_Convergence ==
    (CleanPassDone /\ UniqueFqdns(zone0)) => ManagedMapping(zone) = PeerMapping

C1_Witness ==
    /\ CleanPassDone
    /\ UniqueFqdns(zone0)
    /\ actions.updated = 1
    /\ actions.deleted = 1
    /\ ManagedMapping(zone0) # PeerMapping

\* ===================================================================== C2
\* The second of two consecutive passes changed nothing: no create, update or
\* delete counted or called, no error, every desired fqdn counted no_change.
ZeroChanges ==
    /\ actions.created = 0
    /\ actions.updated = 0
    /\ actions.deleted = 0
    /\ actions.errors = 0
    /\ MutationCalls = {}
    /\ actions.no_change = Cardinality(PeerMapping)

\* C2 as claimed: a pass that follows a pass (one that made its changes with
\* no call failing), the peers unchanged and nobody else writing to the zone,
\* creates, updates and deletes nothing and counts every desired key no_change.
C2_IdempotenceAnyZone ==
    (pc = "summary" /\ cmd = "sync" /\ prev.clean_pass) => ZeroChanges

\* C2 as amended: the same, when the first pass started from a zone in which
\* no two managed records have the same fqdn.
C2_Idempotence ==
    (pc = "summary" /\ cmd = "sync" /\ prev.clean_pass /\ prev.unique)
        => ZeroChanges

C2_Witness ==
    /\ pc = "summary" /\ cmd = "sync" /\ ~dry_run
    /\ prev.clean_pass /\ prev.unique
    /\ actions.no_change = 2
    /\ nextId > Len(zone) + 1

\* ===================================================================== C3
\* C3: in every pass and every purge, a record whose name does not end with
\* .<prefix>.<domain> is never read into the current map (or the purge list),
\* never created, updated or deleted, and the records that are not owned are
\* the same, in the same order, as when the run started.
C3_OwnershipBoundary ==
    /\ \A i \in DOMAIN current : Owned(current[i].name)
    /\ \A i \in DOMAIN managed_records : Owned(managed_records[i].name)
    /\ \A i \in DOMAIN zone : zone[i].id \notin Ids(zone0) => Owned(zone[i].name)
    /\ \A i \in CallsOf("update") \cup CallsOf("delete") :
          /\ calls[i].id \in Ids(zone0)
          /\ Owned(RecordById(zone0, calls[i].id).name)
    /\ Unowned(zone) = Unowned(zone0)

C3_Witness ==
    /\ pc = "summary" /\ cmd = "sync" /\ ~dry_run
    /\ Unowned(zone0) # <<>>
    /\ actions.created = 1
    /\ actions.deleted = 1
    /\ AllCallsOk

\* ===================================================================== C4
\* What one call asked for, without how it ended.
Asked(c) == [op |-> c.op, id |-> c.id, name |-> c.name, ip |-> c.ip]

\* The calls the snapshot of the pass asks for: per desired entry from
\* position k on, then per current entry from position k on.
RECURSIVE PlanDesired(_)
PlanDesired(k) ==
    IF k > Len(desired) THEN <<>>
    ELSE LET d == desired[k]
             hit == { i \in DOMAIN current : current[i].fqdn = d.fqdn }
             one == IF hit = {}
                    THEN << [op |-> "create", id |-> 0, name |-> d.device_name,
                             ip |-> d.ip] >>
                    ELSE IF \E i \in hit : current[i].ip # d.ip
                    THEN << [op |-> "update",
                             id |-> current[CHOOSE i \in hit : TRUE].id,
                             name |-> d.device_name, ip |-> d.ip] >>
                    ELSE <<>>
         IN  one \o PlanDesired(k + 1)

RECURSIVE PlanStale(_)
PlanStale(k) ==
    IF k > Len(current) THEN <<>>
    ELSE (IF \E i \in DOMAIN desired : desired[i].fqdn = current[k].fqdn
          THEN <<>>
          ELSE << [op |-> "delete", id |-> current[k].id, name |-> <<>>,
                   ip |-> ""] >>)
         \o PlanStale(k + 1)

\* The create, update and delete calls made so far, in order.
MutationsMade == SelectSeq(calls, LAMBDA c : c.op \in Mutations)

Raised(op) == { i \in CallsOf(op) : calls[i].out = "raise" }

\* C4: when a create, update or delete raises, the pass still makes exactly
\* the calls its snapshot asks for, in the same order with the same arguments,
\* reaches its summary, and counts each raising call once as an error and in
\* no other counter.
C4_PartialFailureIsolation ==
    /\ (cmd = "sync" /\ ~dry_run /\ pc = "summary") =>
          /\ [i \in DOMAIN MutationsMade |-> Asked(MutationsMade[i])]
                = PlanDesired(1) \o PlanStale(1)
          /\ actions.errors = Cardinality({ i \in MutationCalls :
                                             calls[i].out = "raise" })
          /\ actions.created = Cardinality(CallsOf("create") \ Raised("create"))
          /\ actions.updated = Cardinality(CallsOf("update") \ Raised("update"))
          /\ actions.deleted = Cardinality(CallsOf("delete") \ Raised("delete"))
    /\ (cmd = "sync" /\ pc = "returned") => MutationCalls = {}

C4_Witness ==
    /\ cmd = "sync" /\ ~dry_run /\ pc = "summary"
    /\ actions.errors = 1
    /\ actions.deleted = 1
    /\ \E i, j \in MutationCalls :
          i < j /\ calls[i].out = "raise" /\ calls[j].out = "ok"

\* ===================================================================== C5
\* C5: a pass whose get_devices call fails makes no other call at all; a pass
\* whose listing of the managed records fails makes no create, update or
\* delete; either way the pass is over and the zone is as it was.
C5_FailFast ==
    cmd = "sync" =>
        /\ \A i \in CallsOf("get_devices") :
              calls[i].out = "raise" =>
                  /\ Len(calls) = 1
                  /\ pc = "returned"
                  /\ zone = zone0
        /\ \A i \in CallsOf("list") :
              calls[i].out = "raise" =>
                  /\ i = Len(calls)
                  /\ MutationCalls = {}
                  /\ pc = "returned"
                  /\ zone = zone0

C5_Witness ==
    /\ cmd = "sync" /\ ~dry_run /\ pc = "returned"
    /\ Len(calls) = 2
    /\ calls[2].op = "list" /\ calls[2].resp.status = 500
    /\ ManagedMapping(zone0) # PeerMapping

\* ===================================================================== C6
\* C6: a dry-run pass makes no create, update or delete call and leaves the
\* zone as it was; at its summary its counters are the ones a pass that makes
\* its changes reports from the same peers and zone when every call succeeds,
\* with no error counted.
C6_DryRun ==
    /\ (cmd = "sync" /\ dry_run) => (MutationCalls = {} /\ zone = zone0)
    /\ (cmd = "sync" /\ pc = "summary" /\ (dry_run \/ AllCallsOk)) =>
          actions = Expected(zone0)

C6_Witness ==
    /\ cmd = "sync" /\ dry_run /\ pc = "summary"
    /\ actions.created = 1
    /\ actions.deleted = 1
    /\ zone0 # <<>>

\* ===================================================================== C7
\* C7: for every desired fqdn a pass that makes its changes does exactly one
\* of: (a) no managed record of that fqdn: one create call with the short name
\* and the address; (b) the record listed for it has another address: one
\* update call with that record's id and the new address, and no create or
\* delete; (c) same address: no call, and the fqdn is counted no_change.
C7_DiffClassification ==
    (cmd = "sync" /\ ~dry_run /\ pc = "summary") =>
        /\ \A f \in PeerFqdns :
              LET creates == { i \in CallsOf("create") : CallFqdn(i) = f }
                  updates == { i \in CallsOf("update") :
                                  \/ CallFqdn(i) = f
                                  \/ calls[i].id \in IdsOf(zone0, f) }
                  deletes == { i \in CallsOf("delete") :
                                  calls[i].id \in IdsOf(zone0, f) }
              IN  IF f \notin ZoneFqdns(zone0)
                  THEN /\ Cardinality(creates) = 1
                       /\ \A i \in creates : calls[i].ip = AddressOf(f)
                       /\ updates = {} /\ deletes = {}
                  ELSE IF LastOf(zone0, f).content # AddressOf(f)
                  THEN /\ Cardinality(updates) = 1
                       /\ \A i \in updates :
                             /\ calls[i].id = LastOf(zone0, f).id
                             /\ calls[i].ip = AddressOf(f)
                             /\ CallFqdn(i) = f
                       /\ creates = {} /\ deletes = {}
                  ELSE creates = {} /\ updates = {} /\ deletes = {}
        /\ actions.no_change = Expected(zone0).no_change

C7_Witness ==
    /\ cmd = "sync" /\ ~dry_run /\ pc = "summary"
    /\ Expected(zone0).created = 1
    /\ Expected(zone0).updated = 1
    /\ AllCallsOk

\* ===================================================================== C8
\* C8 as claimed, its second half: a pass that makes its changes and whose
\* peer list is empty makes a delete call for every managed record of the zone.
C8_DeletesEveryManagedRecord ==
    (cmd = "sync" /\ ~dry_run /\ pc = "summary" /\ peers = <<>>) =>
        \A i \in ManagedAt(zone0) :
            \E k \in CallsOf("delete") : calls[k].id = zone0[i].id

\* C8 as amended: for every fqdn of the current map that is not desired the
\* pass makes exactly one delete call, with the id of the record listed (last)
\* for that fqdn; and a pass whose peer list is empty does not stop there: it
\* returns early only when a call failed, and otherwise makes that one delete
\* call for every managed fqdn.
C8_StaleDeletion ==
    /\ (cmd = "sync" /\ ~dry_run /\ pc = "summary") =>
          \A f \in ZoneFqdns(zone0) \ PeerFqdns :
              LET deletes == { i \in CallsOf("delete") :
                                  calls[i].id \in IdsOf(zone0, f) }
              IN  /\ Cardinality(deletes) = 1
                  /\ \A i \in deletes : calls[i].id = LastOf(zone0, f).id
    /\ (cmd = "sync" /\ pc = "returned" /\ peers = <<>>) => ~AllCallsOk

C8_Witness ==
    /\ cmd = "sync" /\ ~dry_run /\ pc = "summary"
    /\ peers = <<>>
    /\ Cardinality(CallsOf("delete")) = 2
    /\ ManagedAt(zone) = {}

\* ===================================================================== C9
\* C9: whenever the provider answers a delete with "record not found" (code
\* 81044), delete_dns_record returns True without raising, and the run counts
\* no error for that record.
C9_DeleteNotFoundIsSuccess ==
    \A i \in CallsOf("delete") :
        RecordNotFound \in calls[i].resp.codes => calls[i].out = "ok"

\* ==================================================================== C10
\* C10: whenever the provider answers a delete with a failure that is neither
\* success nor "record not found", an HTTP error status included,
\* delete_dns_record returns False and raises nothing.
C10_DeleteNeverRaises ==
    \A i \in CallsOf("delete") :
        (/\ calls[i].resp.status # 0
         /\ ~calls[i].resp.success
         /\ RecordNotFound \notin calls[i].resp.codes) => calls[i].out = "false"

\* ==================================================================== C11
\* C11: when delete_dns_record returns False for a record, the pass or the
\* purge counts the record as an error and not as deleted: deleted counts
\* exactly the delete calls that returned True, errors counts the others.
C11_FalseDeleteIsError ==
    (~dry_run /\ pc = "summary") =>
        /\ actions.deleted =
              Cardinality({ i \in CallsOf("delete") : calls[i].out = "ok" })
        /\ \A i \in CallsOf("delete") :
              calls[i].out = "false" => actions.errors >= 1

\* ==================================================================== C12
\* The create calls the provider answered with the conflict "record already
\* exists".
Conflicts == { i \in CallsOf("create") : RecordExists \in calls[i].resp.codes }

\* C12: a create answered with the conflict 81057 re-fetches the records of
\* the requested fqdn; it returns (the call does not raise, the pass counts
\* the record created and no error for it) exactly when the re-fetch comes
\* back with such a record, and no second record is added to the zone.
C12_CreateAbsorbsConflict ==
    /\ \A i \in Conflicts :
          /\ calls[i].refetch # "none"
          /\ calls[i].out = "ok" <=> calls[i].refetch = "found"
    /\ (cmd = "sync" /\ ~dry_run /\ pc = "summary") =>
          /\ actions.created =
                Cardinality({ i \in CallsOf("create") : calls[i].out = "ok" })
          /\ actions.errors =
                Cardinality({ i \in MutationCalls : calls[i].out = "raise" })

C12_Witness ==
    /\ cmd = "sync" /\ ~dry_run /\ pc = "summary"
    /\ \E i \in Conflicts : calls[i].refetch = "found" /\ calls[i].out = "ok"
    /\ actions.created = 1
    /\ actions.errors = 0

\* ==================================================================== C13
\* The writes of the other client are those of a pass with the same peers
\* that found the same zone: creates of records the peers ask for and the zone
\* did not have.
RivalPass ==
    \A w \in DOMAIN others :
        /\ others[w].op = "add"
        /\ others[w].record.type = "A"
        /\ << Lower(others[w].record.name), others[w].record.content >>
              \in PeerMapping
        /\ Lower(others[w].record.name) \notin ZoneFqdns(zone0)

\* The create calls that lost such a race: answered with the conflict, the
\* re-fetch not itself refused by the provider.
LostRaces ==
    IF RivalPass THEN { i \in Conflicts : calls[i].refetch # "failed" } ELSE {}

\* The managed records of zone z with fqdn f.
RecordsOf(z, f) == { i \in ManagedAt(z) : Lower(z[i].name) = f }

\* C13: when two passes with the same peers both find an fqdn absent and
\* both create it, the create that comes second returns without raising, no
\* error is counted for it, and the zone then holds exactly one managed record
\* of that fqdn, with the desired address.
C13_CreateRace ==
    \A i \in LostRaces :
        /\ calls[i].out = "ok"
        /\ calls[i].refetch = "found"
        /\ CallFqdn(i) \notin ZoneFqdns(zone0)
        /\ Cardinality(RecordsOf(zone, CallFqdn(i))) = 1
        /\ \A k \in RecordsOf(zone, CallFqdn(i)) : zone[k].content = calls[i].ip
        /\ pc = "summary" =>
              actions.errors =
                 Cardinality({ k \in MutationCalls \ {i} : calls[k].out = "raise" })

C13_Witness ==
    /\ cmd = "sync" /\ ~dry_run /\ pc = "summary"
    /\ otherWrites = 1
    /\ LostRaces # {}
    /\ Len(zone) = Len(zone0) + 1
    /\ ManagedMapping(zone) = PeerMapping

\* ==================================================================== C14
\* The calls of the current run that went through are still in force: a
\* created fqdn is in the zone with its address, an updated record has its
\* new address, a deleted record is gone.
AppliedKept ==
    \A i \in MutationCalls :
        calls[i].out = "ok" =>
            CASE calls[i].op = "create" ->
                   << CallFqdn(i), calls[i].ip >> \in ManagedMapping(zone)
              [] calls[i].op = "update" ->
                   /\ calls[i].id \in Ids(zone)
                   /\ RecordById(zone, calls[i].id).content = calls[i].ip
              [] OTHER -> calls[i].id \notin Ids(zone)

\* C14 as claimed: with fixed peers and no other writer, the first pass
\* without a failing call after a pass applied in part leaves the managed
\* mapping equal to the desired one, whatever the zone was.
C14_ConvergesAfterPartialAnyZone ==
    (CleanPassDone /\ prev.partial) => ManagedMapping(zone) = PeerMapping

\* C14 as amended: from a zone in which no two managed records have the same
\* fqdn, nothing applied is undone when another call of the pass fails; the
\* first pass without a failing call after a pass applied in part leaves the
\* managed mapping equal to the desired one; and the pass after a pass
\* without a failing call creates, updates and deletes nothing.
C14_EventualConvergence ==
    /\ cmd = "sync" => AppliedKept
    /\ (CleanPassDone /\ prev.partial /\ prev.unique) =>
          /\ UniqueFqdns(zone0)
          /\ ManagedMapping(zone) = PeerMapping
    /\ (pc = "summary" /\ cmd = "sync" /\ prev.clean_pass /\ prev.unique) =>
          /\ ManagedMapping(zone) = PeerMapping
          /\ MutationCalls = {}
          /\ actions.created + actions.updated + actions.deleted = 0

C14_Witness ==
    /\ CleanPassDone
    /\ prev.partial /\ prev.unique
    /\ zone0 # <<>>
    /\ MutationCalls # {}
    /\ nextId > Len(zone) + 1

\* ==================================================================== C15
\* C15: a listing one of whose page requests, the first or a later one, is
\* answered 401 or 403 raises ValueError; answered any other HTTP error
\* status it raises the HTTP error; either way the caller gets no list, not
\* even the pages fetched before.
C15_ListAuthError ==
    \A i \in CallsOf("list") :
        LET r == calls[i].resp
        IN  /\ r.status \in {Unauthorized, Forbidden} =>
                  calls[i].exc = "ValueError"
            /\ (r.status >= 400 /\ r.status \notin {Unauthorized, Forbidden}) =>
                  calls[i].exc = "HTTPError"
            /\ calls[i].exc # "none" =>
                  /\ calls[i].out = "raise"
                  /\ current = <<>>
                  /\ managed_records = <<>>
                  /\ pc = "returned"

C15_Witness ==
    /\ cmd = "sync" /\ pc = "returned"
    /\ \E i \in CallsOf("list") :
          /\ calls[i].resp.status = Forbidden
          /\ calls[i].pages = 2
          /\ calls[i].exc = "ValueError"

\* ==================================================================== C16
\* The address records of zone z, in the provider's order, and the number of
\* pages the provider splits them over.
AddressRecords(z) == SelectSeq(z, LAMBDA r : r.type = "A")

TotalPages(z) ==
    LET size == IF PerPage <= PageCap THEN PerPage ELSE PageCap
    IN  (Len(AddressRecords(z)) + size - 1) \div size

\* The listings of the current run that returned.
Listed == { i \in CallsOf("list") : calls[i].out = "ok" }

\* C16: a listing that returns has requested the pages 1..N the provider
\* reports (one request when there is no record), and what it hands on has
\* every managed record of every page once: none lost, none twice.
C16_TransparentPagination ==
    \A i \in Listed :
        /\ calls[i].pages = (IF TotalPages(zone0) = 0 THEN 1 ELSE TotalPages(zone0))
        /\ cmd = "cleanup" =>
              /\ Len(managed_records) = Cardinality(ManagedAt(zone0))
              /\ \A k \in ManagedAt(zone0) :
                    Cardinality({ m \in DOMAIN managed_records :
                                    managed_records[m].id = zone0[k].id }) = 1
        /\ cmd = "sync" =>
              /\ Keys(current) = ZoneFqdns(zone0)
              /\ \A m \in DOMAIN current :
                    current[m].id = LastOf(zone0, current[m].fqdn).id

C16_Witness ==
    /\ cmd = "cleanup" /\ pc = "cleanup_delete"
    /\ \E i \in Listed : calls[i].pages >= 2
    /\ Len(managed_records) = 2
    /\ zone = zone0

\* ==================================================================== C17
\* C17: the managed records handed to a purge are exactly the address
\* records of the zone whose name ends, whatever the letter case, with
\* .<prefix>.<domain>, in the provider's order; the current map of a pass is
\* made of exactly these.  A record named <prefix>.<domain> is not among them.
C17_ManagedFilter ==
    Listed # {} =>
        /\ (cmd = "cleanup" /\ pc # "returned") =>
              managed_records =
                 SelectSeq(zone0, LAMBDA r : r.type = "A" /\ Owned(r.name))
        /\ cmd = "sync" =>
              /\ \A m \in DOMAIN current :
                    \E k \in DOMAIN zone0 :
                       /\ zone0[k].id = current[m].id
                       /\ zone0[k].type = "A"
                       /\ Owned(zone0[k].name)
                       /\ current[m].fqdn = Lower(zone0[k].name)
                       /\ current[m].ip = zone0[k].content
              /\ \A k \in DOMAIN zone0 :
                    (zone0[k].type = "A" /\ Owned(zone0[k].name)) =>
                       \E m \in DOMAIN current :
                          current[m].fqdn = Lower(zone0[k].name)

C17_Witness ==
    /\ cmd = "cleanup" /\ pc = "cleanup_delete" /\ zone = zone0
    /\ Len(zone0) = 2
    /\ Len(managed_records) = 1
    /\ managed_records[1].name # Lower(managed_records[1].name)
    /\ \E k \in DOMAIN zone0 : zone0[k].type = "A" /\ ~Owned(zone0[k].name)

\* ==================================================================== C18
\* The desired map of the current pass has been built.
DesiredBuilt == cmd = "sync" /\ pc \notin {"idle", "get_devices", "returned"}

\* The records the current run has added to the zone.
Added == { i \in DOMAIN zone : zone[i].id \notin Ids(zone0) }

\* C18 as claimed: the key of the desired map is lowercase(short_name), a
\* dot, the prefix and the domain as they are configured.
C18_NamingRuleAsConfigured ==
    DesiredBuilt =>
        Keys(desired) =
           { Lower(ShortName(peers[k])) \o Dot \o cf.subdomain_prefix
                \o Dot \o cf.domain : k \in Named }

\* C18 as amended: the key of the desired map, the name of every record a
\* pass creates and the name an update writes are the whole of
\* short_name.prefix.domain in lower case, so that short names differing
\* only in letter case share one fqdn; for an empty short name
\* _get_record_name raises ValueError and no name is made.
C18_NamingRule ==
    /\ DesiredBuilt =>
          /\ Keys(desired) = { PeerFqdn(k) : k \in Named }
          /\ \A m, n \in DOMAIN desired : desired[m].fqdn = desired[n].fqdn => m = n
    /\ cmd = "sync" =>
          /\ \A i \in Added : \E k \in Named : zone[i].name = PeerFqdn(k)
          /\ \A i \in CallsOf("update") :
                calls[i].out = "ok" =>
                   RecordById(zone, calls[i].id).name = CallFqdn(i)
    /\ \A k \in DOMAIN peers :
          IF ShortName(peers[k]) = <<>>
          THEN /\ GetRecordName(cf, ShortName(peers[k])).exc = "ValueError"
               /\ k \notin Named
          ELSE GetRecordName(cf, ShortName(peers[k])) =
                  [exc |-> "none", name |-> PeerFqdn(k)]

C18_Witness ==
    /\ cmd = "sync" /\ ~dry_run /\ pc = "summary"
    /\ Len(peers) = 2
    /\ Cardinality(Named) = 2
    /\ Len(desired) = 1
    /\ Added # {}
    /\ ShortName(peers[1]) # Lower(ShortName(peers[1]))

\* ==================================================================== C19
\* C19: a single reconciliation run that cannot begin its pass (get_devices
\* failed, or the listing of the managed records failed) ends with a non-zero
\* exit code, and a single run ends with exit code 0 only when the pass was
\* carried out to its summary.
C19_ExitCodeReflectsInitiation ==
    /\ (cmd = "sync" /\ pc = "returned") => ExitCode \notin {0, -1}
    /\ (cmd = "sync" /\ ExitCode = 0) => pc = "summary"

\* ==================================================================== C20
\* C20: when loading or validating the configuration fails, main exits with a
\* non-zero code before any operation is started: no remote call has been
\* made (no list, create, update or delete), nothing was fetched or counted,
\* and the zone is as the run found it.
C20_ConfigErrorIsFatal ==
    pc = "config_error" =>
        /\ ExitCode = 1
        /\ cmd = "none"
        /\ calls = <<>>
        /\ zone = zone0
        /\ desired = <<>> /\ current = <<>> /\ managed_records = <<>>
        /\ actions = NoActions

\* A configuration error in a process whose zone holds managed records that
\* a pass would have changed.
C20_Witness ==
    /\ pc = "config_error"
    /\ ExitCode = 1
    /\ calls = <<>>
    /\ ManagedMapping(zone) # PeerMapping
    /\ zone # <<>>

\* ==================================================================== C21
\* The settings whose values are text.
TextSettings == {"api_token", "zone_id", "domain", "subdomain_prefix"}

\* The outcome of load_config does not depend on what the file gives
\* setting k.
FileValueIgnored(k) ==
    \A v \in FileValues[k] :
        LoadConfigFrom([config_file EXCEPT !.settings[k] = v], environ) = config

\* C21: load_config either raises a configuration error (ValueError) or
\* returns a configuration in which api token, zone id, domain and
\* subdomain_prefix are non-empty text (the prefix "ts" when nothing gives
\* one), interval_seconds is a positive integer and log_level is one of the
\* five levels; and a setting the environment gives a value does not depend
\* on the file's value for it: the environment's value is the one returned.
C21_ValidatedConfiguration ==
    config # Unloaded =>
        /\ config.exc \in {"none", "ValueError"}
        /\ config.exc = "none" =>
              /\ \A k \in TextSettings :
                    config[k].t = "str" /\ config[k].s # <<>>
              /\ config.interval_seconds.t = "int"
              /\ config.interval_seconds.n > 0
              /\ config.log_level.t = "str"
              /\ config.log_level.s \in ValidLogLevels
              /\ \A k \in TextSettings :
                    (environ[k].t = "str" /\ environ[k].s # <<>>) =>
                        config[k] = environ[k]
              /\ environ.log_level.t = "str" =>
                    config.log_level.s = Upper(environ.log_level.s)
              /\ IntOf(environ.interval_seconds).exc = "none" =>
                    config.interval_seconds.n = IntOf(environ.interval_seconds).n
              /\ ( /\ environ.subdomain_prefix.t # "str"
                    /\ config_file.settings.subdomain_prefix.t = "absent" ) =>
                    config.subdomain_prefix.s = DefaultPrefix
        /\ config_file.state = "object" =>
              \A k \in DOMAIN environ :
                  environ[k].t = "str" => FileValueIgnored(k)

\* ==================================================================== C22
\* The devices of the status, and the devices get_devices returned.
StatusDevices ==
    { agent.Peer[i] : i \in DOMAIN agent.Peer }
       \cup { agent.Self[i] : i \in DOMAIN agent.Self }

Returned == { active_devices.devices[i] : i \in DOMAIN active_devices.devices }

\* The positions in which get_devices returned the device of the status r.
ReturnedAt(r) ==
    { i \in DOMAIN active_devices.devices : active_devices.devices[i].id = r.id }

\* The rule of the claim, on one address.
Eligible(ip) ==
    /\ \E i \in DOMAIN ip : ip[i] = "."
    /\ \/ StartsWith(ip, <<"1", "0", "0", ".">>)
       \/ ~StartsWith(ip, <<"1", "6", "9", ".", "2", "5", "4", ".">>)

\* The positions of the eligible addresses of the device r.
EligibleAt(r) == { j \in DOMAIN r.TailscaleIPs : Eligible(r.TailscaleIPs[j]) }

BeforeFirstDot(s) ==
    LET dots == { i \in DOMAIN s : s[i] = "." }
    IN  IF dots = {} THEN s
        ELSE SubSeq(s, 1, (CHOOSE i \in dots : \A j \in dots : i <= j) - 1)

\* The short names the agent reports for the device r of the status: the
\* first label of its DNSName and its HostName, where it has them.
ReportedNames(r) ==
    ( (IF r.DNSName.t = "str" THEN { BeforeFirstDot(r.DNSName.s) } ELSE {})
      \cup (IF r.HostName.t = "str" THEN { r.HostName.s } ELSE {}) ) \ { <<>> }

\* The returned devices that get_desired_dns_records does not skip for want
\* of a name: what the pass has of the agent's answer.
Kept == { d \in Returned : ShortName(d) # <<>> }

\* C23: every peer that comes out of the Peer Source, remote or local, has a
\* short name that the agent reported and an eligible address; a device
\* without a name or without an eligible address is dropped; and dropping
\* devices never makes get_devices fail.
C23_PeerInvariant ==
    /\ (agent.run = "ok" /\ active_devices # Unasked) => active_devices.exc = "none"
    /\ active_devices.exc = "none" =>
          /\ \A d \in Kept :
                \E r \in StatusDevices :
                    /\ r.id = d.id
                    /\ ShortName(d) \in ReportedNames(r)
                    /\ \E j \in EligibleAt(r) : d.ip = r.TailscaleIPs[j]
          /\ \A r \in StatusDevices :
                (ReportedNames(r) = {} \/ EligibleAt(r) = {}) =>
                    \A d \in Kept : d.id # r.id

C25_NameUsed ==
    active_devices.exc = "none" =>
        \A d \in Returned :
            \E r \in StatusDevices :
                /\ r.id = d.id
                /\ (r.DNSName.t = "str" /\ r.DNSName.s # <<>>) =>
                      ShortName(d) = BeforeFirstDot(r.DNSName.s)
                /\ ( /\ ~(r.DNSName.t = "str" /\ r.DNSName.s # <<>>)
                      /\ r.HostName.t = "str" ) =>
                      ShortName(d) = r.HostName.s

\* One device named by its DNSName, whose HostName differs, and one named by
\* its HostName for want of a DNSName.
C25_Witness ==
    /\ active_devices.exc = "none"
    /\ \E d \in Returned, r \in StatusDevices :
          /\ r.id = d.id
          /\ r.DNSName = Str(<<"a", ".", "t">>)
          /\ r.HostName = Str(<<"h">>)
          /\ ShortName(d) = <<"a">>
    /\ \E d \in Returned, r \in StatusDevices :
          /\ r.id = d.id
          /\ r.DNSName = Absent
          /\ ShortName(d) = <<"H">>

\* ==================================================================== C26
\* The fqdn the mutation call i is about: of a create or an update, the one
\* made of its device name; of a delete, the one of the record it names.
MutationFqdn(i) ==
    IF calls[i].op = "delete" /\ calls[i].id \in Ids(zone0)
    THEN Lower(RecordById(zone0, calls[i].id).name)
    ELSE CallFqdn(i)

\* C26: when two peers of one pass yield the same fqdn (short names that
\* differ only in case), the desired map holds exactly one entry for that
\* fqdn, with the address of the peer that comes later in the list
\* get_devices returned, and the pass makes at most one mutation call for
\* that fqdn.
C26_LastWriteWins ==
    DesiredBuilt =>
        /\ \A i, j \in DOMAIN desired :
              desired[i].fqdn = desired[j].fqdn => i = j
        /\ \A k \in Named : PeerFqdn(k) \in Keys(desired)
        /\ \A i \in DOMAIN desired :
              \E k \in Named :
                  /\ PeerFqdn(k) = desired[i].fqdn
                  /\ \A m \in Named : PeerFqdn(m) = PeerFqdn(k) => m <= k
                  /\ desired[i].ip = peers[k].ip
        /\ \A f \in Keys(desired) :
              Cardinality({ i \in MutationCalls : MutationFqdn(i) = f }) <= 1

\* Two peers whose names differ in case and whose addresses differ; the pass
\* has updated the one record of their fqdn to the address of the second.
C26_Witness ==
    /\ cmd = "sync" /\ ~dry_run /\ pc = "summary"
    /\ Len(peers) = 2
    /\ PeerFqdn(1) = PeerFqdn(2)
    /\ ShortName(peers[1]) # ShortName(peers[2])
    /\ peers[1].ip # peers[2].ip
    /\ Len(desired) = 1
    /\ desired[1].ip = peers[2].ip
    /\ actions.updated = 1
    /\ Cardinality(MutationCalls) = 1

\* ==================================================================== C27
\* The pass at its summary fetched the managed records the pass before it
\* fetched (the peer list is the same in every pass), and ran dry or not as
\* that pass did.
SameInputsAsLast ==
    /\ pc = "summary" /\ cmd = "sync"
    /\ last.pass
    /\ last.current = current
    /\ last.dry_run = dry_run

\* C27: two passes that see the same peer list and the same managed records
\* make the same create, update and delete calls, whatever the passes before
\* them did or failed to do; their counters are the same when the calls also
\* ended the same way.
C27_NoStateAcrossPasses ==
    SameInputsAsLast =>
        /\ last.asked = [i \in DOMAIN MutationsMade |-> Asked(MutationsMade[i])]
        /\ last.outs = [i \in DOMAIN MutationsMade |-> MutationsMade[i].out] =>
              last.actions = actions

\* A pass that makes its changes and is refused none of them, after a pass
\* that fetched the same records, asked for the same changes and failed in
\* part.
C27_Witness ==
    /\ SameInputsAsLast
    /\ ~dry_run
    /\ MutationCalls # {}
    /\ prev.partial
    /\ \E i \in DOMAIN last.outs : last.outs[i] = "raise"
    /\ AllCallsOk

\* ==================================================================== C28
\* The ids of the managed records of the zone the purge found, in the order
\* of the zone, and the ids its delete calls named, in the order of the calls.
ManagedIds ==
    LET managed == SelectSeq(zone0, LAMBDA r : r.type = "A" /\ Owned(r.name))
    IN  [i \in DOMAIN managed |-> managed[i].id]

DeletedIds ==
    LET made == SelectSeq(calls, LAMBDA c : c.op = "delete")
    IN  [i \in DOMAIN made |-> made[i].id]

PurgeListed == \E i \in CallsOf("list") : calls[i].out = "ok"

\* C28: a purge that is not a dry run makes exactly one delete call for
\* every managed record and none for any other record; a delete that fails
\* is counted as an error, and not as deleted, and the deletion of the rest
\* goes on; a dry-run purge makes no delete call and reports as deleted the
\* number of managed records; when the listing fails no delete is made.
C28_Purge ==
    (cmd = "cleanup" /\ pc \in {"summary", "returned"}) =>
        /\ ~PurgeListed => CallsOf("delete") = {}
        /\ (PurgeListed /\ ~dry_run) =>
              /\ DeletedIds = ManagedIds
              /\ actions.deleted =
                    Cardinality({ i \in CallsOf("delete") : calls[i].out = "ok" })
              /\ actions.errors =
                    Cardinality({ i \in CallsOf("delete") : calls[i].out # "ok" })
        /\ dry_run =>
              /\ CallsOf("delete") = {}
              /\ zone = zone0
              /\ PurgeListed => actions.deleted = Len(ManagedIds)

\* ==================================================================== C29
\* The provider marked the answer to the call successful.
MarkedSuccessful(c) ==
    c.resp.status # 0 /\ c.resp.status < 400 /\ c.resp.success

\* The call is a create whose conflict (HTTP error carrying 81057) was
\* absorbed: the second request found the record.
AbsorbedConflict(c) ==
    /\ c.op = "create"
    /\ c.resp.status >= 400
    /\ RecordExists \in c.resp.codes
    /\ c.refetch = "found"

Writes == CallsOf("create") \cup CallsOf("update")

\* C29: every create_record and update_record call either returns, after an
\* answer marked successful or (create only) after an absorbed conflict, or
\* raises; an answer with success false or an HTTP error status, the
\* absorbed conflict apart, is raised, and the pass counts it as an error
\* and not as created or updated.
C29_NoSilentFailure ==
    /\ \A i \in Writes :
          /\ calls[i].out \in {"ok", "raise"}
          /\ calls[i].out = "ok" <=>
                (MarkedSuccessful(calls[i]) \/ AbsorbedConflict(calls[i]))
    /\ (cmd = "sync" /\ ~dry_run) =>
          /\ actions.created =
                Cardinality({ i \in CallsOf("create") : calls[i].out = "ok" })
          /\ actions.updated =
                Cardinality({ i \in CallsOf("update") : calls[i].out = "ok" })
          /\ actions.errors =
                Cardinality({ i \in DOMAIN calls :
                                /\ calls[i].op \in Mutations
                                /\ calls[i].out = "raise" })

\* A pass ended with two errors and nothing created or updated: a create
\* answered HTTP 200 with success false, and an update answered HTTP 500.
C29_Witness ==
    /\ cmd = "sync" /\ ~dry_run /\ pc = "summary"
    /\ \E i \in CallsOf("create") :
          /\ calls[i].resp.status = 200 /\ ~calls[i].resp.success
          /\ calls[i].out = "raise"
    /\ \E i \in CallsOf("update") :
          /\ calls[i].resp.status = 500
          /\ calls[i].out = "raise"
    /\ actions.created = 0 /\ actions.updated = 0 /\ actions.errors = 2

\* ==================================================================== C30
Counters == {"created", "updated", "deleted", "no_change", "errors"}

CounterSum(a) ==
    a.created + a.updated + a.deleted + a.no_change + a.errors

\* One turn of either loop of the pass adds one to one counter and leaves
\* the other four alone.
CountsOne ==
    \E k \in Counters :
       /\ actions'[k] = actions[k] + 1
       /\ \A other \in Counters \ {k} : actions'[other] = actions[other]

\* C30: at the summary of a pass the five counters add up to the number of
\* distinct fqdns that are a key of the desired map or of the current map,
\* and every turn of the two loops, which handle one fqdn each, adds exactly
\* one to exactly one counter.
C30_CountersPartition ==
    /\ []((cmd = "sync" /\ pc = "summary") =>
            CounterSum(actions) = Cardinality(Keys(desired) \cup Keys(current)))
    /\ [][(cmd = "sync" /\ pc \in {"apply", "delete"}) => CountsOne]_vars

\* The summary of a pass over two fqdns, one desired and one stale, where
\* the change for the desired one failed and the stale one was deleted.
C30_Witness ==
    /\ cmd = "sync" /\ pc = "summary"
    /\ Cardinality(Keys(desired) \cup Keys(current)) = 2
    /\ Keys(desired) # {}
    /\ Keys(current) \ Keys(desired) # {}
    /\ actions.errors = 1
    /\ actions.deleted = 1

\* ==================================================================== C31
\* The fqdn a mutation call of a pass is about: of a create or an update,
\* the one made of its device name; of a delete, the key under which the
\* current map files the record it names.
PassFqdn(i) ==
    IF calls[i].op = "delete"
    THEN LET held == { k \in DOMAIN current : current[k].id = calls[i].id }
         IN  IF held = {} THEN <<>> ELSE current[CHOOSE k \in held : TRUE].fqdn
    ELSE CallFqdn(i)

\* C31: within one pass no fqdn receives more than one create, update or
\* delete call, no record id is the target of both an update and a delete,
\* and a record created or updated earlier in the pass is not deleted later:
\* every delete names a record of the snapshot whose fqdn no create or
\* update of the pass names.
C31_OneMutationPerRecord ==
    cmd = "sync" =>
        /\ \A i, j \in MutationCalls : PassFqdn(i) = PassFqdn(j) => i = j
        /\ \A i \in CallsOf("update"), j \in CallsOf("delete") :
              calls[i].id # calls[j].id
        /\ \A j \in CallsOf("delete") :
              /\ \E k \in DOMAIN current : current[k].id = calls[j].id
              /\ \A i \in Writes : i < j => CallFqdn(i) # PassFqdn(j)

\* A finished pass that updated one record and then deleted another.
C31_Witness ==
    /\ cmd = "sync" /\ pc = "summary"
    /\ \E i \in CallsOf("update"), j \in CallsOf("delete") :
          /\ i < j
          /\ calls[i].out = "ok"
          /\ calls[j].out = "ok"

\* ==================================================================== C32
\* The call was decided from the desired map and the snapshot (the current
\* map): a create for a desired key the snapshot lacks, an update of the
\* record the snapshot holds under a desired key, with another address, a
\* delete of the record the snapshot holds under a key that is not desired.
FromSnapshot(i) ==
    LET c == calls[i]
    IN  IF c.op = "delete"
        THEN \E k \in DOMAIN current :
                /\ current[k].id = c.id
                /\ current[k].fqdn \notin Keys(desired)
        ELSE \E k \in DOMAIN desired :
                /\ desired[k].device_name = c.name
                /\ desired[k].ip = c.ip
                /\ IF c.op = "create"
                   THEN desired[k].fqdn \notin Keys(current)
                   ELSE /\ desired[k].fqdn \in Keys(current)
                        /\ Get(current, desired[k].fqdn).id = c.id
                        /\ Get(current, desired[k].fqdn).ip # c.ip

\* The calls of a pass come in the order: get_devices, one listing, the
\* creates and updates, the deletes.
InOrder ==
    /\ \A i \in DOMAIN calls : calls[i].op = "get_devices" <=> i = 1
    /\ \A i \in DOMAIN calls : calls[i].op = "list" <=> i = 2
    /\ MutationCalls # {} => (Len(calls) >= 2 /\ calls[2].out = "ok")
    /\ \A i \in Writes, j \in CallsOf("delete") : i < j

\* C32: in a pass the peer source is asked first, then the managed records
\* are listed exactly once, then every create and update is made, and only
\* then the deletes; every mutation is decided from the one snapshot, which
\* (like the desired map) stays as it was taken while the two loops run.
C32_OrderInsidePass ==
    /\ [](cmd = "sync" =>
            /\ InOrder
            /\ \A i \in MutationCalls : FromSnapshot(i)
            /\ pc \in {"apply", "delete", "summary"} =>
                  Cardinality(CallsOf("list")) = 1)
    /\ [][(cmd = "sync" /\ pc \in {"apply", "delete"}) =>
            (current' = current /\ desired' = desired)]_vars

\* A finished pass whose zone another client wrote to after the listing,
\* and which made a create or an update and then a delete.
C32_Witness ==
    /\ cmd = "sync" /\ pc = "summary"
    /\ others # <<>>
    /\ \E i \in Writes, j \in CallsOf("delete") : i < j
    /\ Len(calls) = 4

\* ==================================================================== C33
\* C33: for every non-empty short name, prefix and domain, in any letter
\* case, the fqdn the naming rule produces passes the suffix test of
\* get_all_managed_records and is the key under which get_current_dns_records
\* files the record: the record a pass created for a peer is, for the next
\* pass, a managed record filed under the key the peer has in the desired
\* map.
C33_NamingAgreesWithOwnership ==
    pc = "listed" =>
        \A k \in DOMAIN desired :
            /\ IsManagedName(cf, desired[k].fqdn)
            /\ \E m \in DOMAIN current :
                  /\ current[m].fqdn = desired[k].fqdn
                  /\ current[m].id = zone[k].id

\* ==================================================================== C34
\* C34: whenever create_dns_record returns, the conflict path included, the
\* zone holds an address record with the requested fqdn, and the record
\* returned has the requested address for content.
C34_CreatePostcondition ==
    \A i \in CallsOf("create") :
        calls[i].out = "ok" =>
            /\ \E k \in DOMAIN zone :
                  /\ zone[k].type = "A"
                  /\ Lower(zone[k].name) = CallFqdn(i)
            /\ calls[i].ret.content = calls[i].ip

\* ==================================================================== C35
\* The fqdns that two or more managed records of the zone the pass found
\* share.
Shared == { f \in ZoneFqdns(zone0) : Cardinality(IdsOf(zone0, f)) >= 2 }

\* The update and delete calls of the pass that name a record of fqdn f.
CallsOn(f) ==
    { i \in CallsOf("update") \cup CallsOf("delete") :
        calls[i].id \in IdsOf(zone0, f) }

\* C35: when two or more managed address records have the same fqdn, the
\* current map keeps for that fqdn the record listed last and no other, and
\* the pass makes at most one update or delete call for the fqdn, with the
\* id of that last record; the other records of the fqdn get no call (and
\* the fqdn no create).
C35_DuplicateNames ==
    (cmd = "sync" /\ pc \in {"apply", "delete", "summary"}) =>
        \A f \in Shared :
            /\ \E k \in DOMAIN current :
                  /\ current[k].fqdn = f
                  /\ current[k].id = LastOf(zone0, f).id
                  /\ current[k].ip = LastOf(zone0, f).content
                  /\ \A m \in DOMAIN current : current[m].fqdn = f => m = k
            /\ Cardinality(CallsOn(f)) <= 1
            /\ \A i \in CallsOn(f) : calls[i].id = LastOf(zone0, f).id
            /\ \A i \in CallsOf("create") : CallFqdn(i) # f

\* A finished pass over a zone with two records of one fqdn that no peer
\* has: it deleted the one listed last, and the other one is still there.
C35_Witness ==
    /\ cmd = "sync" /\ pc = "summary"
    /\ \E f \in Shared :
          /\ \E i \in CallsOf("delete") :
                /\ calls[i].id = LastOf(zone0, f).id
                /\ calls[i].out = "ok"
          /\ \E id \in IdsOf(zone0, f) : id \in Ids(zone)

\* ==================================================================== C36
\* The ids of the managed records of the zone the run found, and the ids
\* its delete calls named.
ManagedIdSet == { zone0[k].id : k \in ManagedAt(zone0) }

DeletedIdSet == { calls[i].id : i \in CallsOf("delete") }

\* A finished purge, or a finished pass with an empty peer list, that got
\* its listing of the managed records.
PurgeDone == cmd = "cleanup" /\ pc \in {"summary", "returned"} /\ PurgeListed

EmptyPassDone == cmd = "sync" /\ pc = "summary" /\ peers = <<>>

\* C36: on a zone where no two managed records share an fqdn, a purge and
\* a pass with an empty peer list make delete calls for the same set of
\* record ids, which is the set of all managed records when changes are
\* made and the empty set in a dry run, and make no create or update call.
C36_PurgeIsEmptyPass ==
    (UniqueFqdns(zone0) /\ (PurgeDone \/ EmptyPassDone)) =>
        /\ Writes = {}
        /\ DeletedIdSet = IF dry_run THEN {} ELSE ManagedIdSet

\* A pass with no peers finished after two delete calls, on a zone of two
\* managed records of different fqdns.
C36_Witness ==
    EmptyPassDone /\ ~dry_run /\ UniqueFqdns(zone0) /\ Cardinality(DeletedIdSet) = 2

\* ==================================================================== C37
\* The total_pages the loop reads off the answer to page p, 1 when the
\* answer has none.
TotalRead(p) ==
    LET t == Answer(listing.script, p).total_pages
    IN  IF t = NoTotal THEN 1 ELSE t

\* The loop stops after page p.
LastPage(p) == Answer(listing.script, p).records = 0 \/ p >= TotalRead(p)

\* The pages are asked for in the order 1, 2, 3, .., none twice, and the
\* last one asked for is the first that is empty or whose number is at
\* least the total_pages it reports.
AskedInOrder ==
    /\ \A p \in DOMAIN listing.asked : listing.asked[p] = p
    /\ \A p \in DOMAIN listing.asked : LastPage(p) <=> p = Len(listing.asked)

\* Every answer the loop read reported total_pages = n.
FixedTotal(n) ==
    \A p \in DOMAIN listing.asked : Answer(listing.script, p).total_pages = n

\* C37 as worded: get_dns_records asks for pages 1, 2, 3, .., never the same
\* page twice, and stops after the first page that is empty or whose number
\* is at least the reported total_pages (1 when absent); when the provider
\* reports one total_pages = N throughout, it makes at most N requests.
C37_PaginationTerminates ==
    listing.asked # <<>> =>
        /\ AskedInOrder
        /\ \A n \in 0..(MaxPages + 1) :
              FixedTotal(n) => Len(listing.asked) <= n

\* C37, amended: the same, with at most N requests when N is 1 or more,
\* and the one request that is always made when N is 0.
C37_PaginationTerminatesAfterOne ==
    listing.asked # <<>> =>
        /\ AskedInOrder
        /\ \A n \in 0..(MaxPages + 1) :
              FixedTotal(n) =>
                  Len(listing.asked) <= (IF n = 0 THEN 1 ELSE n)

\* A listing that read three pages, each with records and each reporting
\* three pages in all.
C37_Witness ==
    /\ listing.asked = << 1, 2, 3 >>
    /\ FixedTotal(3)
    /\ \A p \in 1..3 : Answer(listing.script, p).records = 1

\* ==================================================================== C38
\* C38: a run of main with --validate-config makes the check of the peer
\* source and then the check of the provider, the second whatever became of
\* the first, and can always go on to its end; it makes no create, update
\* or delete call and no listing of the managed records, leaves the zone as
\* it found it, starts no pass (no map is built, no counter moves), and
\* exits with code 0 whether the checks passed or not.
C38_ValidateIsReadOnly ==
    /\ [](cmd = "validate" =>
            /\ pc \in {"validate_ts", "validate_cf", "validated"}
            /\ pc = "validate_ts" => (calls = <<>> /\ ENABLED ValidateTailscale)
            /\ pc = "validate_cf" => (Len(calls) = 1 /\ ENABLED ValidateCloudflare)
            /\ pc = "validated" =>
                  /\ Len(calls) = 2
                  /\ calls[1].op = "get_devices"
                  /\ calls[2].op = "probe"
                  /\ ExitCode = 0
            /\ MutationCalls = {}
            /\ CallsOf("list") = {}
            /\ zone = zone0
            /\ desired = <<>> /\ current = <<>> /\ managed_records = <<>>
            /\ actions = NoActions)
    /\ [][cmd = "validate" =>
            (cmd' \in {"validate", "none"} /\ zone' = zone /\ actions' = actions)]_vars

\* A validation that is over: the check of the peer source failed, the
\* check of the provider was made all the same and passed.
C38_Witness ==
    /\ cmd = "validate" /\ pc = "validated"
    /\ calls[1].out = "raise"
    /\ calls[2].out = "ok"
    /\ ExitCode = 0

====
